---- MODULE Spec2Model ----
(***************************************************************************)
(* SimBridge relay server (main.py, auth.py, models.py): the session       *)
(* registry, the pairing endpoints, the command relay with its pending     *)
(* queue, and the WebSocket session life cycle.                            *)
(*                                                                         *)
(* Handlers that are coroutines (async def) run on one event loop: the     *)
(* code between two awaits is one step, and a step ends with the effect    *)
(* of the await it runs into.  asyncio.Lock is taken without suspending    *)
(* when it is free, so a step that needs _conn_lock is enabled only while  *)
(* the lock is free.  Handlers that are plain functions (def) run in the   *)
(* thread pool; the store (SQLite) serialises their write transactions.    *)
(***************************************************************************)
EXTENDS Integers, Sequences, FiniteSets, TLC

VARIABLES
    devices,           \* table devices: row id -> [user_id, device_type]
    pairings,          \* table pairings: row id -> [host_device_id, client_device_id]
    pairing_codes,     \* table pairing_codes
    pending_commands,  \* table pending_commands
    message_logs,      \* table message_logs
    connections,       \* dict device_id -> WebSocket (a session id)
    _conn_lock,        \* 0 when free, else the session that holds it
    sessions,          \* every accepted WebSocket, in order of acceptance
    _auth_attempts,    \* dict key -> list of timestamps
    now,               \* the clock, in seconds
    confirms,          \* confirm_pairing calls in flight in the thread pool
    pair_calls,        \* calls of /devices, /pair and /pair/confirm served so far
    uuids,             \* number of uuid4() values drawn so far
    ws_received,       \* number of frames the read loops have taken in
    users,             \* table users: row id -> [username, password_hash, email, google_id]
    auth_calls,        \* calls of /auth/register, /auth/login and /auth/google served so far
    limiting           \* _check_rate_limit calls in flight in the thread pool

vars == <<devices, pairings, pairing_codes, pending_commands, message_logs,
          connections, _conn_lock, sessions, _auth_attempts, now, confirms, pair_calls,
          uuids, ws_received, users, auth_calls, limiting>>

authVars == <<users, auth_calls, limiting>>

storeVars == <<devices, pairings, pairing_codes, _auth_attempts, now, confirms, pair_calls,
               authVars>>

-----------------------------------------------------------------------------
(* Bounds of the model *)

MaxSessions == 2
MaxRequests == 3

-----------------------------------------------------------------------------
(* Values *)

None == 0

\* user ids; user 3 is registered and owns no device
Users == {1, 2, 3}

\* bearer tokens: token t of a user decodes to that user, BadToken to nothing
BadToken == [bad |-> TRUE]
Token(u) == [user_id |-> u]
Tokens == {Token(u) : u \in Users} \cup {BadToken}

DeviceTypes == {"host", "client"}

Device(user_id, device_type) == [user_id |-> user_id, device_type |-> device_type]

\* None in a column whose values are records
Null == [null |-> TRUE]

User(username, password_hash, email, google_id) ==
    [username |-> username, password_hash |-> password_hash, email |-> email,
     google_id |-> google_id]

\* hash_password / verify_password: the hash of a password matches that
\* password only
hash_password(password) == [bcrypt |-> password]
verify_password(password, hashed) == hashed = [bcrypt |-> password]

\* the accounts of the users 1, 2 and 3, registered with a password
Accounts ==
    <<User("u1", hash_password("pw1"), Null, Null),
      User("u2", hash_password("pw2"), Null, Null),
      User("u3", hash_password("pw3"), Null, Null)>>

\* no call of the auth endpoints has been made besides those registrations
NoAuthCalls == users = Accounts /\ auth_calls = 0 /\ limiting = {}

Pairing(host_device_id, client_device_id) ==
    [host_device_id |-> host_device_id, client_device_id |-> client_device_id]

DeviceIds == DOMAIN devices

\* ids a caller can put in a request: the rows, and one id that is no row
NamedIds == 1..(Len(devices) + 1)

Range(s) == {s[i] : i \in DOMAIN s}

\* dict.get(key): the value, or None
Get(dict, key) == IF key \in DOMAIN dict THEN dict[key] ELSE None

\* dict[key] = value
Put(dict, key, value) ==
    [k \in (DOMAIN dict) \cup {key} |-> IF k = key THEN value ELSE dict[k]]

\* dict.pop(key, None)
Pop(dict, key) == [k \in (DOMAIN dict) \ {key} |-> dict[k]]

\* json.dumps / json.loads: the text of a JSON object, and back
dumps(msg) == [json |-> msg]
IsJson(raw) == DOMAIN raw = {"json"}
loads(raw) == raw.json


\* msg[key] = value on a JSON object
With(msg, key, value) ==
    [k \in (DOMAIN msg) \cup {key} |-> IF k = key THEN value ELSE msg[k]]

-----------------------------------------------------------------------------
(* Store rows and queries *)

MessageLog(from_device_id, to_device_id, msg_type, payload) ==
    [from_device_id |-> from_device_id, to_device_id |-> to_device_id,
     msg_type |-> msg_type, payload |-> payload]

\* the column default of PendingCommand.delivered
DeliveredDefault == FALSE

\* PendingCommand(host_device_id=, from_device_id=, payload=): the row as it is
\* inserted; created_at is the insertion time, so the rows of the table are
\* in created_at order
PendingCommand(host_device_id, from_device_id, payload) ==
    [host_device_id |-> host_device_id, from_device_id |-> from_device_id,
     payload |-> payload, delivered |-> DeliveredDefault]

\* db.query(Device).filter(user_id ==, device_type == "client").first()
FirstClient(user_id) ==
    LET ids == {d \in DeviceIds : /\ devices[d].user_id = user_id
                                  /\ devices[d].device_type = "client"}
    IN  IF ids = {} THEN None ELSE CHOOSE d \in ids : \A e \in ids : d <= e

HasPairing(host_device_id, client_device_id) ==
    \E p \in DOMAIN pairings :
        /\ pairings[p].host_device_id = host_device_id
        /\ pairings[p].client_device_id = client_device_id

\* the id of the first Pairing row of this host and client, or None
FirstPairing(host_device_id, client_device_id) ==
    LET ids == {p \in DOMAIN pairings :
                   /\ pairings[p].host_device_id = host_device_id
                   /\ pairings[p].client_device_id = client_device_id}
    IN  IF ids = {} THEN None ELSE CHOOSE p \in ids : \A other \in ids : p <= other

\* a faulty _get_paired_host: only the ownership of the host is checked
_get_paired_host_no_pairing(client_device_id, host_device_id, user_id) ==
    IF ~(/\ host_device_id \in DeviceIds
         /\ devices[host_device_id].user_id = user_id) THEN 403
    ELSE 200

\* _get_paired_host: 200 when it returns the host, else the status it raises
_get_paired_host(client_device_id, host_device_id, user_id) ==
    IF ~HasPairing(host_device_id, client_device_id) THEN 403
    ELSE IF ~(/\ host_device_id \in DeviceIds
              /\ devices[host_device_id].user_id = user_id) THEN 403
    ELSE 200

\* decode_token: the user id of a valid token, None for one that raises 401
decode_token(token) == IF token \in {Token(u) : u \in Users} THEN token.user_id ELSE None

\* a faulty _verify_device_ownership: the role of the device is not compared
\* with the endpoint
_verify_device_ownership_any_role(device_id, user_id, expected_type) ==
    /\ device_id \in DeviceIds
    /\ devices[device_id].user_id = user_id

\* _verify_device_ownership: TRUE when the device row is found, FALSE when it raises
_verify_device_ownership(device_id, user_id, expected_type) ==
    /\ device_id \in DeviceIds
    /\ devices[device_id].user_id = user_id
    /\ devices[device_id].device_type = expected_type

\* a faulty pending query: the undelivered rows of every host
RECURSIVE Undelivered_of_any_host(_, _)
Undelivered_of_any_host(host_device_id, i) ==
    IF i > Len(pending_commands) THEN <<>>
    ELSE IF ~pending_commands[i].delivered
         THEN <<i>> \o Undelivered_of_any_host(host_device_id, i + 1)
         ELSE Undelivered_of_any_host(host_device_id, i + 1)

\* the undelivered rows of a host, ordered by created_at
RECURSIVE Undelivered(_, _)
Undelivered(host_device_id, i) ==
    IF i > Len(pending_commands) THEN <<>>
    ELSE IF /\ pending_commands[i].host_device_id = host_device_id
            /\ ~pending_commands[i].delivered
         THEN <<i>> \o Undelivered(host_device_id, i + 1)
         ELSE Undelivered(host_device_id, i + 1)

\* the device ids on the other side of the pairings of a device, in row order
RECURSIVE PairedIds(_, _, _)
PairedIds(device_id, device_type, p) ==
    IF p > Len(pairings) THEN <<>>
    ELSE IF device_type = "host" /\ pairings[p].host_device_id = device_id
         THEN <<pairings[p].client_device_id>> \o PairedIds(device_id, device_type, p + 1)
    ELSE IF device_type # "host" /\ pairings[p].client_device_id = device_id
         THEN <<pairings[p].host_device_id>> \o PairedIds(device_id, device_type, p + 1)
    ELSE PairedIds(device_id, device_type, p + 1)

-----------------------------------------------------------------------------
(* WebSockets *)

\* a WebSocket after accept(), with the locals of its handler
NewSession(device_id, user_id, device_type) ==
    [device_id |-> device_id, user_id |-> user_id, device_type |-> device_type,
     pc |-> "bind", state |-> "open", close_code |-> 0, close_reason |-> "",
     out |-> <<>>, todo |-> <<>>, sent |-> 0, targets |-> <<>>, heartbeat |-> "none"]

IsOpen(ss, ws) == ss[ws].state = "open"

\* heartbeat_task.cancel(): a task that has not returned is cancelled before
\* it runs again
cancel(heartbeat) == IF heartbeat = "running" THEN "cancelled" ELSE heartbeat

\* ws.send_json(frame) on an open socket
send_json(ss, ws, frame) == [ss EXCEPT ![ws].out = Append(@, frame)]

\* ws.close(code, reason): raises on a socket that is closed already
\* a faulty close: the socket is left open
close_skipped(ss, ws, code, reason) == ss

close(ss, ws, code, reason) ==
    IF IsOpen(ss, ws)
    THEN [ss EXCEPT ![ws].state = "closed", ![ws].close_code = code,
                    ![ws].close_reason = reason]
    ELSE ss

-----------------------------------------------------------------------------
(* Command relay over HTTP *)

\* what the caller gets back: the status code and the body
Response(code, status, req_id) == [code |-> code, status |-> status, req_id |-> req_id]

\* a call as a whole: what it returns and what it leaves behind
Call(returns, logs, pending, ss, n) ==
    [returns |-> returns, message_logs |-> logs, pending_commands |-> pending,
     sessions |-> ss, uuids |-> n]

\* HTTPException(code) raised before anything is written
Raise(code) ==
    Call(Response(code, "", None), message_logs, pending_commands, sessions, uuids)

\* a faulty _relay_command: a send that fails falls through to the queue
_relay_command_requeue(host_device_id, msg, from_device_id) ==
    LET fresh == Get(msg, "req_id") = None
        req_id == IF fresh THEN uuids + 1 ELSE msg.req_id
        n == IF fresh THEN uuids + 1 ELSE uuids
        m == With(msg, "req_id", req_id)
        ws == Get(connections, host_device_id)
        logs == Append(message_logs,
                    MessageLog(from_device_id, host_device_id, "command", dumps(m)))
    IN  IF ws # None /\ IsOpen(sessions, ws)
        THEN Call(Response(200, "sent", req_id), logs, pending_commands,
                  send_json(sessions, ws, m), n)
        ELSE Call(Response(200, "queued", req_id), logs,
                  Append(pending_commands,
                      PendingCommand(host_device_id, from_device_id, dumps(m))),
                  sessions, n)

\* a faulty _relay_command: answers "queued" for an absent host without
\* storing the PendingCommand row
_relay_command_no_row(host_device_id, msg, from_device_id) ==
    LET req_id == uuids + 1
        m == With(msg, "req_id", req_id)
        ws == Get(connections, host_device_id)
        logs == Append(message_logs,
                    MessageLog(from_device_id, host_device_id, "command", dumps(m)))
    IN  IF ws = None
        THEN Call(Response(200, "queued", req_id), logs, pending_commands, sessions, req_id)
        ELSE IF IsOpen(sessions, ws)
        THEN Call(Response(200, "sent", req_id), logs, pending_commands,
                  send_json(sessions, ws, m), req_id)
        ELSE Call(Response(502, "", None), logs, pending_commands, sessions, req_id)

\* a faulty _relay_command: sends the command to the host without the
\* req_id it returns to the caller
_relay_command_no_req_id(host_device_id, msg, from_device_id) ==
    LET req_id == uuids + 1
        m == With(msg, "req_id", req_id)
        ws == Get(connections, host_device_id)
        logs == Append(message_logs,
                    MessageLog(from_device_id, host_device_id, "command", dumps(m)))
    IN  IF ws = None
        THEN Call(Response(200, "queued", req_id), logs,
                  Append(pending_commands,
                      PendingCommand(host_device_id, from_device_id, dumps(m))),
                  sessions, req_id)
        ELSE IF IsOpen(sessions, ws)
        THEN Call(Response(200, "sent", req_id), logs, pending_commands,
                  send_json(sessions, ws, msg), req_id)
        ELSE Call(Response(502, "", None), logs, pending_commands, sessions, req_id)

\* _relay_command, from the lookup under _conn_lock to its return
_relay_command(host_device_id, msg, from_device_id) ==
    LET fresh == Get(msg, "req_id") = None
        req_id == IF fresh THEN uuids + 1 ELSE msg.req_id
        n == IF fresh THEN uuids + 1 ELSE uuids
        m == With(msg, "req_id", req_id)
        ws == Get(connections, host_device_id)
        logs == Append(message_logs,
                    MessageLog(from_device_id, host_device_id, "command", dumps(m)))
    IN  IF ws = None
        THEN Call(Response(200, "queued", req_id), logs,
                  Append(pending_commands,
                      PendingCommand(host_device_id, from_device_id, dumps(m))),
                  sessions, n)
        ELSE IF IsOpen(sessions, ws)
        THEN Call(Response(200, "sent", req_id), logs, pending_commands,
                  send_json(sessions, ws, m), n)
        ELSE Call(Response(502, "", None), logs, pending_commands, sessions, n)

\* the body shared by send_sms, make_call and get_sims
CommandEndpoint(token, to_device_id, msg) ==
    LET user_id == decode_token(token)
        client == FirstClient(user_id)
    IN  IF user_id = None THEN Raise(401)
        ELSE IF client = None THEN Raise(400)
        ELSE IF _get_paired_host(client, to_device_id, user_id) # 200
        THEN Raise(_get_paired_host(client, to_device_id, user_id))
        ELSE _relay_command(to_device_id, msg, client)

send_sms(token, req) ==
    CommandEndpoint(token, req.to_device_id,
        [type |-> "command", cmd |-> "SEND_SMS", sim |-> req.sim, to |-> req.to,
         body |-> req.body])

make_call(token, req) ==
    CommandEndpoint(token, req.to_device_id,
        [type |-> "command", cmd |-> "MAKE_CALL", sim |-> req.sim, to |-> req.to])

get_sims(token, host_device_id) ==
    CommandEndpoint(token, host_device_id, [type |-> "command", cmd |-> "GET_SIMS"])

\* the number of requests the server has taken on: sockets accepted,
\* commands relayed and frames read
Requests == Len(sessions) + uuids + ws_received

\* a command endpoint runs: a call that gets as far as _relay_command waits
\* for _conn_lock
Http(call) ==
    /\ Requests < MaxRequests
    /\ call.returns.code \in {200, 502} => _conn_lock = 0
    /\ message_logs' = call.message_logs
    /\ pending_commands' = call.pending_commands
    /\ sessions' = call.sessions
    /\ uuids' = call.uuids
    /\ UNCHANGED <<connections, _conn_lock, ws_received>>
    /\ UNCHANGED storeVars

\* request bodies the callers send
SmsCommands == {[to_device_id |-> d, sim |-> 1, to |-> "+15550001", body |-> "hi"] :
                   d \in NamedIds}
CallCommands == {[to_device_id |-> d, sim |-> 2, to |-> "+15550002"] : d \in NamedIds}

-----------------------------------------------------------------------------
(* WebSocket endpoints: open, bind, drain, greet *)

\* ws_host / ws_client up to ws.accept(): _ws_auth and _verify_device_ownership
\* raise before the socket is accepted
WsOpen(device_id, token, device_type) ==
    LET user_id == decode_token(token)
    IN  /\ Requests < MaxRequests
        /\ UNCHANGED storeVars
        /\ IF user_id = None \/ ~_verify_device_ownership(device_id, user_id, device_type)
           THEN UNCHANGED <<pending_commands, message_logs, connections, _conn_lock,
                            sessions, uuids, ws_received>>
           ELSE /\ Len(sessions) < MaxSessions
                /\ sessions' = Append(sessions, NewSession(device_id, user_id, device_type))
                /\ UNCHANGED <<pending_commands, message_logs, connections, _conn_lock,
                               uuids, ws_received>>

ws_host(device_id, token) == WsOpen(device_id, token, "host")

ws_client(device_id, token) == WsOpen(device_id, token, "client")

\* a faulty commit: the row whose send failed is marked delivered as well
CommitDelivered_failed(pc_rows, ss, ws) ==
    [i \in DOMAIN pc_rows |->
        IF \E k \in DOMAIN ss[ws].todo : k <= ss[ws].sent + 1 /\ ss[ws].todo[k] = i
        THEN [pc_rows[i] EXCEPT !.delivered = TRUE]
        ELSE pc_rows[i]]

\* a faulty commit: every row the drain set out to send is marked delivered
CommitDelivered_all(pc_rows, ss, ws) ==
    [i \in DOMAIN pc_rows |->
        IF \E k \in DOMAIN ss[ws].todo : ss[ws].todo[k] = i
        THEN [pc_rows[i] EXCEPT !.delivered = TRUE]
        ELSE pc_rows[i]]

\* db.commit() of the drain: the rows whose send returned are marked delivered
CommitDelivered(pc_rows, ss, ws) ==
    [i \in DOMAIN pc_rows |->
        IF \E k \in 1..ss[ws].sent : ss[ws].todo[k] = i
        THEN [pc_rows[i] EXCEPT !.delivered = TRUE]
        ELSE pc_rows[i]]

\* the handler of ws from the head of the drain loop to its next await:
\* the next queued command is sent, or the loop is left, the marks are
\* committed, the heartbeat task is created and the greeting is sent; a
\* greeting that raises leaves for the finally block, which cancels the task
DrainOrGreet(ss, ws) ==
    LET me == ss[ws]
    IN  IF me.sent < Len(me.todo) /\ IsOpen(ss, ws)
        THEN /\ sessions' = [send_json(ss, ws, loads(pending_commands[me.todo[me.sent + 1]].payload))
                                EXCEPT ![ws].sent = @ + 1, ![ws].pc = "drain"]
             /\ pending_commands' = pending_commands
        ELSE /\ pending_commands' = CommitDelivered(pending_commands, ss, ws)
             /\ sessions' =
                   IF IsOpen(ss, ws)
                   THEN [send_json(ss, ws, [type |-> "connected", device_id |-> me.device_id])
                            EXCEPT ![ws].pc = "loop", ![ws].heartbeat = "running"]
                   ELSE [ss EXCEPT ![ws].pc = "cleanup", ![ws].heartbeat = cancel("running")]

\* connections[device_id] = ws, the lock released, and the pending rows read
Register(ss, ws) ==
    LET me == ss[ws]
        todo == IF me.device_type = "host" THEN Undelivered(me.device_id, 1) ELSE <<>>
    IN  /\ connections' = Put(connections, me.device_id, ws)
        /\ _conn_lock' = 0
        /\ DrainOrGreet([ss EXCEPT ![ws].todo = todo], ws)

\* _ws_connect_and_loop after accept(): the lock is taken; an old socket is
\* closed while the lock is held, else the socket is registered at once
Bind(ws) ==
    LET old_ws == Get(connections, sessions[ws].device_id)
    IN  /\ sessions[ws].pc = "bind"
        /\ _conn_lock = 0
        /\ IF old_ws # None
           THEN /\ sessions' = [close(sessions, old_ws, 1008, "Replaced by new connection")
                                   EXCEPT ![ws].pc = "evict"]
                /\ _conn_lock' = ws
                /\ UNCHANGED <<connections, pending_commands>>
           ELSE Register(sessions, ws)
        /\ UNCHANGED <<message_logs, uuids, ws_received>>
        /\ UNCHANGED storeVars

\* old_ws.close() has returned
Evict(ws) ==
    /\ sessions[ws].pc = "evict"
    /\ Register(sessions, ws)
    /\ UNCHANGED <<message_logs, uuids, ws_received>>
    /\ UNCHANGED storeVars

\* the drain loop resumes after a send
Drain(ws) ==
    /\ sessions[ws].pc = "drain"
    /\ DrainOrGreet(sessions, ws)
    /\ UNCHANGED <<message_logs, connections, _conn_lock, uuids,
                   ws_received>>
    /\ UNCHANGED storeVars

-----------------------------------------------------------------------------
(* The read loop *)

ALLOWED_WS_TYPES == {"ping", "command", "event", "webrtc"}

\* text that json.loads rejects
NotJson == [text |-> "not json"]

\* the frames the peers send
WsTexts ==
    {NotJson, dumps([type |-> "ping"]), dumps([type |-> "bogus"]), dumps([type |-> "pong"]),
     dumps([type |-> "command", cmd |-> "X"]),
     dumps([type |-> "event", event |-> "SMS_SENT", from_device_id |-> 1, req_id |-> 77]),
     dumps([type |-> "webrtc", sdp |-> "offer", req_id |-> 78])}
    \cup {dumps([type |-> "command", cmd |-> "X", to_device_id |-> d]) : d \in NamedIds}

TypeOf(msg) == IF "type" \in DOMAIN msg THEN msg.type ELSE "None"

\* f"invalid message type: {msg_type}"
InvalidTypeError(msg_type) ==
    CASE msg_type = "bogus" -> "invalid message type: bogus"
      [] msg_type = "pong" -> "invalid message type: pong"
      [] OTHER -> "invalid message type: None"

\* a faulty Answer: the frame that is answered is also logged
Answer_logged(ws, frame) ==
    /\ sessions' = send_json(sessions, ws, frame)
    /\ message_logs' = Append(message_logs,
           MessageLog(sessions[ws].device_id, sessions[ws].device_id, "unknown", dumps(frame)))
    /\ UNCHANGED <<connections, _conn_lock, pending_commands>>

\* one pass of the loop of _ws_loop for a frame that is answered on the
\* socket it came from: bad JSON, a ping, a type that is not allowed, or a
\* sender without pairing
Answer(ws, frame) ==
    /\ sessions' = send_json(sessions, ws, frame)
    /\ UNCHANGED <<message_logs, connections, _conn_lock, pending_commands>>

\* a faulty Forward: a frame for an absent host is queued like an HTTP
\* command
Forward_queues(ws, raw, msg, target_id) ==
    LET device_id == sessions[ws].device_id
        target_ws == Get(connections, target_id)
    IN  /\ _conn_lock = 0
        /\ message_logs' = Append(message_logs,
               MessageLog(device_id, target_id, TypeOf(msg), raw))
        /\ sessions' =
              IF target_ws # None
              THEN IF IsOpen(sessions, target_ws)
                   THEN send_json(sessions, target_ws, With(msg, "from_device_id", device_id))
                   ELSE sessions
              ELSE sessions
        /\ pending_commands' =
              IF target_ws = None
              THEN Append(pending_commands, PendingCommand(target_id, device_id, raw))
              ELSE pending_commands
        /\ UNCHANGED <<connections, _conn_lock>>

\* a faulty Forward: the sender is told nothing when the target is absent
Forward_silent(ws, raw, msg, target_id) ==
    LET device_id == sessions[ws].device_id
        target_ws == Get(connections, target_id)
    IN  /\ _conn_lock = 0
        /\ message_logs' = Append(message_logs,
               MessageLog(device_id, target_id, TypeOf(msg), raw))
        /\ sessions' =
              IF target_ws # None /\ IsOpen(sessions, target_ws)
              THEN send_json(sessions, target_ws, With(msg, "from_device_id", device_id))
              ELSE sessions
        /\ UNCHANGED <<connections, _conn_lock, pending_commands>>

\* a faulty Forward: the frame is passed on as the sender wrote it
Forward_unstamped(ws, raw, msg, target_id) ==
    LET device_id == sessions[ws].device_id
        target_ws == Get(connections, target_id)
    IN  /\ _conn_lock = 0
        /\ message_logs' = Append(message_logs,
               MessageLog(device_id, target_id, TypeOf(msg), raw))
        /\ sessions' =
              IF target_ws # None
              THEN IF IsOpen(sessions, target_ws)
                   THEN send_json(sessions, target_ws, msg)
                   ELSE sessions
              ELSE send_json(sessions, ws,
                       [error |-> "target_offline", target_device_id |-> target_id,
                        req_id |-> Get(msg, "req_id")])
        /\ UNCHANGED <<connections, _conn_lock, pending_commands>>

\* the rest of the pass: the row of message_logs, the lookup under
\* _conn_lock and the forward, or target_offline back to the sender
Forward(ws, raw, msg, target_id) ==
    LET device_id == sessions[ws].device_id
        target_ws == Get(connections, target_id)
    IN  /\ _conn_lock = 0
        /\ message_logs' = Append(message_logs,
               MessageLog(device_id, target_id, TypeOf(msg), raw))
        /\ sessions' =
              IF target_ws # None
              THEN IF IsOpen(sessions, target_ws)
                   THEN send_json(sessions, target_ws, With(msg, "from_device_id", device_id))
                   ELSE sessions
              ELSE send_json(sessions, ws,
                       [error |-> "target_offline", target_device_id |-> target_id,
                        req_id |-> Get(msg, "req_id")])
        /\ UNCHANGED <<connections, _conn_lock, pending_commands>>

_ws_loop(ws, raw) ==
    LET me == sessions[ws]
        msg == loads(raw)
        paired == PairedIds(me.device_id, me.device_type, 1)
    IN  /\ me.pc = "loop"
        /\ IsOpen(sessions, ws)
        /\ Requests < MaxRequests
        /\ ws_received' = ws_received + 1
        /\ IF ~IsJson(raw) THEN Answer(ws, [error |-> "invalid JSON"])
           ELSE IF TypeOf(msg) = "ping" THEN Answer(ws, [type |-> "pong"])
           ELSE IF TypeOf(msg) \notin ALLOWED_WS_TYPES
           THEN Answer(ws, [error |-> InvalidTypeError(TypeOf(msg))])
           ELSE IF Get(msg, "to_device_id") # None
           THEN Forward(ws, raw, msg, msg.to_device_id)
           ELSE IF paired = <<>>
           THEN Answer(ws, [error |-> IF me.device_type = "client"
                                      THEN "no paired host" ELSE "no paired client"])
           ELSE Forward(ws, raw, msg, Head(paired))
        /\ UNCHANGED uuids
        /\ UNCHANGED storeVars

\* a faulty exit of the read loop: the heartbeat task is left running
Disconnect_beating(ws) ==
    /\ sessions[ws].pc = "loop"
    /\ ~IsOpen(sessions, ws)
    /\ sessions' = [sessions EXCEPT ![ws].pc = "cleanup"]
    /\ UNCHANGED <<pending_commands, message_logs, connections, _conn_lock, uuids,
                   ws_received>>
    /\ UNCHANGED storeVars

\* receive_text() raises WebSocketDisconnect on a closed socket: _ws_loop
\* returns and the finally block cancels the heartbeat task
Disconnect(ws) ==
    /\ sessions[ws].pc = "loop"
    /\ ~IsOpen(sessions, ws)
    /\ sessions' = [sessions EXCEPT ![ws].pc = "cleanup", ![ws].heartbeat = cancel(@)]
    /\ UNCHANGED <<pending_commands, message_logs, connections, _conn_lock, uuids,
                   ws_received>>
    /\ UNCHANGED storeVars

\* the peer closes its end of the socket
PeerClose(ws) ==
    /\ sessions[ws].pc # "done"
    /\ IsOpen(sessions, ws)
    /\ sessions' = close(sessions, ws, 1000, "")
    /\ UNCHANGED <<pending_commands, message_logs, connections, _conn_lock, uuids,
                   ws_received>>
    /\ UNCHANGED storeVars

-----------------------------------------------------------------------------
(* The finally block of _ws_connect_and_loop *)

\* the targets of _notify_paired_offline that the loop passes without an
\* await are those with no socket in connections
RECURSIVE SkipOffline(_, _)
SkipOffline(targets, conns) ==
    IF targets = <<>> THEN <<>>
    ELSE IF Get(conns, Head(targets)) = None THEN SkipOffline(Tail(targets), conns)
    ELSE targets

\* a faulty _notify_paired_offline: a send that fails ends the function
_notify_paired_offline_stops(ss, ws, targets, conns) ==
    LET rest == SkipOffline(targets, conns)
        device_id == ss[ws].device_id
    IN  IF rest = <<>> THEN [ss EXCEPT ![ws].pc = "done", ![ws].targets = <<>>]
        ELSE LET target_ws == conns[Head(rest)]
             IN  IF IsOpen(ss, target_ws)
                 THEN [send_json(ss, target_ws,
                           [type |-> "event", event |-> "DEVICE_OFFLINE",
                            device_id |-> device_id])
                          EXCEPT ![ws].pc = IF Tail(rest) = <<>> THEN "done" ELSE "notify",
                                 ![ws].targets = Tail(rest)]
                 ELSE [ss EXCEPT ![ws].pc = "done", ![ws].targets = <<>>]

\* _notify_paired_offline from the head of its loop to the next send
_notify_paired_offline(ss, ws, targets, conns) ==
    LET rest == SkipOffline(targets, conns)
        device_id == ss[ws].device_id
    IN  IF rest = <<>> THEN [ss EXCEPT ![ws].pc = "done", ![ws].targets = <<>>]
        ELSE LET target_ws == conns[Head(rest)]
                 told == IF IsOpen(ss, target_ws)
                         THEN send_json(ss, target_ws,
                                  [type |-> "event", event |-> "DEVICE_OFFLINE",
                                   device_id |-> device_id])
                         ELSE ss
             IN  [told EXCEPT ![ws].pc = IF Tail(rest) = <<>> THEN "done" ELSE "notify",
                              ![ws].targets = Tail(rest)]

\* the socket is removed from connections if it is still the registered one
\* a faulty unbind: the entry is left in place
unbind_never(conns, device_id, ws) == conns

\* a faulty unbind: the entry of the device is removed whoever holds it
unbind_always(conns, device_id, ws) == Pop(conns, device_id)

unbind_if(conns, device_id, ws) ==
    IF Get(conns, device_id) = ws THEN Pop(conns, device_id) ELSE conns

Cleanup(ws) ==
    LET me == sessions[ws]
        conns == unbind_if(connections, me.device_id, ws)
    IN  /\ me.pc = "cleanup"
        /\ _conn_lock = 0
        /\ connections' = conns
        /\ sessions' = _notify_paired_offline(sessions, ws,
                           PairedIds(me.device_id, me.device_type, 1), conns)
        /\ UNCHANGED <<pending_commands, message_logs, _conn_lock, uuids,
                       ws_received>>
        /\ UNCHANGED storeVars

Notify(ws) ==
    /\ sessions[ws].pc = "notify"
    /\ _conn_lock = 0
    /\ sessions' = _notify_paired_offline(sessions, ws, sessions[ws].targets, connections)
    /\ UNCHANGED <<pending_commands, message_logs, connections, _conn_lock, uuids,
                   ws_received>>
    /\ UNCHANGED storeVars

-----------------------------------------------------------------------------
(* Devices that connect again while every device of the tenant is          *)
(* connected: the new socket evicts the old one, whose handler unwinds     *)

MaxSockets == 5

\* ws_host / ws_client of a device of the caller, up to ws.accept()
Reconnect(device_id, token, device_type) ==
    LET user_id == decode_token(token)
    IN  /\ Len(sessions) < MaxSockets
        /\ user_id # None
        /\ _verify_device_ownership(device_id, user_id, device_type)
        /\ sessions' = Append(sessions, NewSession(device_id, user_id, device_type))
        /\ UNCHANGED <<pending_commands, message_logs, connections, _conn_lock,
                       uuids, ws_received>>
        /\ UNCHANGED storeVars

NextReconnect ==
    \/ \E token \in Tokens, device_id \in DOMAIN devices, device_type \in DeviceTypes :
          Reconnect(device_id, token, device_type)
    \/ \E ws \in DOMAIN sessions : Bind(ws)
    \/ \E ws \in DOMAIN sessions : Evict(ws)
    \/ \E ws \in DOMAIN sessions : PeerClose(ws)
    \/ \E ws \in DOMAIN sessions : Disconnect(ws)
    \/ \E ws \in DOMAIN sessions : Cleanup(ws)
    \/ \E ws \in DOMAIN sessions : Notify(ws)

-----------------------------------------------------------------------------
(* The relay and the sessions over a store that earlier calls of            *)
(* /devices, /pair and /pair/confirm have filled                            *)

PairingCode(user_id, host_device_id, code, expires_at, used) ==
    [user_id |-> user_id, host_device_id |-> host_device_id, code |-> code,
     expires_at |-> expires_at, used |-> used]

\* two tenants, each with a host and a client
TwoTenants == <<Device(1, "host"), Device(1, "client"), Device(2, "host"), Device(2, "client")>>

\* one tenant with two clients and two hosts; the first client is paired
\* with the second host only, the second client with both hosts
OneTenant == <<Device(1, "client"), Device(1, "client"), Device(1, "host"), Device(1, "host")>>

Stores ==
    {[devices |-> TwoTenants, pairings |-> <<Pairing(1, 2), Pairing(3, 4)>>],
     [devices |-> TwoTenants, pairings |-> <<Pairing(1, 2)>>],
     [devices |-> OneTenant, pairings |-> <<Pairing(4, 1), Pairing(3, 2), Pairing(4, 2)>>]}

Init ==
    /\ \E store \in Stores :
          /\ devices = store.devices
          /\ pairings = store.pairings
          /\ pairing_codes =
                [p \in DOMAIN store.pairings |->
                    PairingCode(store.devices[store.pairings[p].host_device_id].user_id,
                                store.pairings[p].host_device_id, "000000", 600, TRUE)]
    /\ pending_commands = <<>>
    /\ message_logs = <<>>
    /\ connections = <<>>
    /\ _conn_lock = 0
    /\ sessions = <<>>
    /\ _auth_attempts = <<>>
    /\ now = 0
    /\ confirms = {}
    /\ pair_calls = 0
    /\ uuids = 0
    /\ ws_received = 0
    /\ NoAuthCalls

Next ==
    \/ \E token \in Tokens, req \in SmsCommands : Http(send_sms(token, req))
    \/ \E token \in Tokens, req \in CallCommands : Http(make_call(token, req))
    \/ \E token \in Tokens, host_device_id \in NamedIds : Http(get_sims(token, host_device_id))
    \/ \E token \in Tokens, device_id \in NamedIds : ws_host(device_id, token)
    \/ \E token \in Tokens, device_id \in NamedIds : ws_client(device_id, token)
    \/ \E ws \in DOMAIN sessions : Bind(ws)
    \/ \E ws \in DOMAIN sessions : Evict(ws)
    \/ \E ws \in DOMAIN sessions : Drain(ws)
    \/ \E ws \in DOMAIN sessions, raw \in WsTexts : _ws_loop(ws, raw)
    \/ \E ws \in DOMAIN sessions : Disconnect(ws)
    \/ \E ws \in DOMAIN sessions : PeerClose(ws)
    \/ \E ws \in DOMAIN sessions : Cleanup(ws)
    \/ \E ws \in DOMAIN sessions : Notify(ws)

Spec == Init /\ [][Next]_vars

-----------------------------------------------------------------------------
(* The device and pairing endpoints                                          *)

MaxDevices == 4
MaxCodes == 2
MaxPairCalls == 4
MaxInFlight == 2
MaxClock == 660

AUTH_RATE_LIMIT == 5
AUTH_RATE_WINDOW == 60
CODE_TTL == 600

\* the values _generate_code can draw
Codes == {"111111", "222222"}

relayVars == <<pending_commands, message_logs, connections, _conn_lock, sessions, uuids,
               ws_received, authVars>>

\* create_device: a Device row for the caller
create_device(token, device_type) ==
    /\ decode_token(token) # None
    /\ Len(devices) < MaxDevices
    /\ pair_calls < MaxPairCalls
    /\ pair_calls' = pair_calls + 1
    /\ devices' = Append(devices, Device(decode_token(token), device_type))
    /\ UNCHANGED <<pairings, pairing_codes, _auth_attempts, now, confirms>>
    /\ UNCHANGED relayVars

\* a faulty invalidation: the earlier codes of the host stay unused
ExpireUnused_none(rows, host_device_id) == rows

\* UPDATE pairing_codes SET used = 1 WHERE host_device_id = ? AND used = 0
ExpireUnused(rows, host_device_id) ==
    [i \in DOMAIN rows |->
        IF rows[i].host_device_id = host_device_id /\ ~rows[i].used
        THEN [rows[i] EXCEPT !.used = TRUE]
        ELSE rows[i]]

\* create_pairing_code: 404 unless the caller owns the host; the earlier
\* codes of the host are marked used and the new code is inserted in one
\* transaction
create_pairing_code(token, host_device_id, code) ==
    LET user_id == decode_token(token)
    IN  /\ user_id # None
        /\ _verify_device_ownership(host_device_id, user_id, "host")
        /\ Len(pairing_codes) < MaxCodes
        /\ pair_calls < MaxPairCalls
        /\ pair_calls' = pair_calls + 1
        /\ pairing_codes' = Append(ExpireUnused(pairing_codes, host_device_id),
               PairingCode(user_id, host_device_id, code, now + CODE_TTL, FALSE))
        /\ UNCHANGED <<devices, pairings, _auth_attempts, now, confirms>>
        /\ UNCHANGED relayVars

\* the key of the pairing attempts of a client device
PairKey(client_device_id) == [scope |-> "pair", id |-> client_device_id]

\* the attempts of a key that are still inside the window
Recent(key) ==
    SelectSeq(IF key \in DOMAIN _auth_attempts THEN _auth_attempts[key] ELSE <<>>,
              LAMBDA t : now - t < AUTH_RATE_WINDOW)

\* a faulty _check_rate_limit: an attempt that is exactly one window old
\* still counts
_check_rate_limit_inclusive(key) ==
    LET kept == SelectSeq(IF key \in DOMAIN _auth_attempts THEN _auth_attempts[key] ELSE <<>>,
                          LAMBDA t : now - t <= AUTH_RATE_WINDOW)
    IN  IF Len(kept) >= AUTH_RATE_LIMIT
        THEN [code |-> 429, _auth_attempts |-> Put(_auth_attempts, key, kept)]
        ELSE [code |-> 200, _auth_attempts |-> Put(_auth_attempts, key, Append(kept, now))]

\* _check_rate_limit: the pruned list is stored; 429 when it is full, else
\* the attempt is recorded
_check_rate_limit(key) ==
    IF Len(Recent(key)) >= AUTH_RATE_LIMIT
    THEN [code |-> 429, _auth_attempts |-> Put(_auth_attempts, key, Recent(key))]
    ELSE [code |-> 200, _auth_attempts |-> Put(_auth_attempts, key, Append(Recent(key), now))]

\* a faulty lookup: rows are matched whatever their expiry
RECURSIVE FindCode_expired(_, _)
FindCode_expired(code, i) ==
    IF i > Len(pairing_codes) THEN None
    ELSE IF pairing_codes[i].code = code /\ ~pairing_codes[i].used THEN i
    ELSE FindCode_expired(code, i + 1)

\* the first unused, unexpired PairingCode row with this code, or None
RECURSIVE FindCode(_, _)
FindCode(code, i) ==
    IF i > Len(pairing_codes) THEN None
    ELSE IF /\ pairing_codes[i].code = code
            /\ ~pairing_codes[i].used
            /\ pairing_codes[i].expires_at > now
         THEN i
         ELSE FindCode(code, i + 1)

ConfirmRequests == {[code |-> c, client_device_id |-> d] : c \in Codes, d \in 1..MaxDevices}

Outcome(code, status, attempts, threads) ==
    [code |-> code, status |-> status, _auth_attempts |-> attempts, threads |-> threads]

\* a faulty confirm_pairing: the owner of the code is not compared with the
\* caller
confirm_pairing_any_owner(token, req) ==
    LET user_id == decode_token(token)
        limit == _check_rate_limit(PairKey(req.client_device_id))
        pc == FindCode(req.code, 1)
        existing == HasPairing(pairing_codes[pc].host_device_id, req.client_device_id)
    IN  IF user_id = None THEN Outcome(401, "", _auth_attempts, {})
        ELSE IF ~_verify_device_ownership(req.client_device_id, user_id, "client")
        THEN Outcome(404, "", _auth_attempts, {})
        ELSE IF limit.code # 200 THEN Outcome(429, "", limit._auth_attempts, {})
        ELSE IF pc = None THEN Outcome(400, "", limit._auth_attempts, {})
        ELSE Outcome(200, IF existing THEN "already_paired" ELSE "paired",
                     limit._auth_attempts,
                     {[pc |-> pc, host_device_id |-> pairing_codes[pc].host_device_id,
                       client_device_id |-> req.client_device_id, existing |-> existing,
                       pairing_id |-> FirstPairing(pairing_codes[pc].host_device_id,
                                                   req.client_device_id)]})

\* a faulty confirm_pairing: an existing Pairing row is not looked for
confirm_pairing_again(token, req) ==
    LET user_id == decode_token(token)
        limit == _check_rate_limit(PairKey(req.client_device_id))
        pc == FindCode(req.code, 1)
    IN  IF user_id = None THEN Outcome(401, "", _auth_attempts, {})
        ELSE IF ~_verify_device_ownership(req.client_device_id, user_id, "client")
        THEN Outcome(404, "", _auth_attempts, {})
        ELSE IF limit.code # 200 THEN Outcome(429, "", limit._auth_attempts, {})
        ELSE IF pc = None THEN Outcome(400, "", limit._auth_attempts, {})
        ELSE IF pairing_codes[pc].user_id # user_id
        THEN Outcome(403, "", limit._auth_attempts, {})
        ELSE Outcome(200, "paired", limit._auth_attempts,
                     {[pc |-> pc, host_device_id |-> pairing_codes[pc].host_device_id,
                       client_device_id |-> req.client_device_id, existing |-> FALSE,
                       pairing_id |-> None]})

\* confirm_pairing up to its write: the status it raises, or the write it
\* is about to commit
confirm_pairing(token, req) ==
    LET user_id == decode_token(token)
        limit == _check_rate_limit(PairKey(req.client_device_id))
        pc == FindCode(req.code, 1)
        existing == HasPairing(pairing_codes[pc].host_device_id, req.client_device_id)
    IN  IF user_id = None THEN Outcome(401, "", _auth_attempts, {})
        ELSE IF ~_verify_device_ownership(req.client_device_id, user_id, "client")
        THEN Outcome(404, "", _auth_attempts, {})
        ELSE IF limit.code # 200 THEN Outcome(429, "", limit._auth_attempts, {})
        ELSE IF pc = None THEN Outcome(400, "", limit._auth_attempts, {})
        ELSE IF pairing_codes[pc].user_id # user_id
        THEN Outcome(403, "", limit._auth_attempts, {})
        ELSE Outcome(200, IF existing THEN "already_paired" ELSE "paired",
                     limit._auth_attempts,
                     {[pc |-> pc, host_device_id |-> pairing_codes[pc].host_device_id,
                       client_device_id |-> req.client_device_id, existing |-> existing,
                       pairing_id |-> FirstPairing(pairing_codes[pc].host_device_id,
                                                   req.client_device_id)]})

\* a faulty /pair/confirm: the code that was found is marked used before its
\* owner is compared with the caller
ConfirmRead_consumes(token, req) ==
    LET call == confirm_pairing(token, req)
    IN  /\ pair_calls < MaxPairCalls
        /\ pair_calls' = pair_calls + 1
        /\ Cardinality(confirms \cup call.threads) <= MaxInFlight
        /\ _auth_attempts' = call._auth_attempts
        /\ confirms' = confirms \cup call.threads
        /\ pairing_codes' = IF call.code = 403
                             THEN [pairing_codes EXCEPT ![FindCode(req.code, 1)].used = TRUE]
                             ELSE pairing_codes
        /\ UNCHANGED <<devices, pairings, now>>
        /\ UNCHANGED relayVars

\* /pair/confirm from the request to the queries of the handler
ConfirmRead(token, req) ==
    LET call == confirm_pairing(token, req)
    IN  /\ pair_calls < MaxPairCalls
        /\ pair_calls' = pair_calls + 1
        /\ Cardinality(confirms \cup call.threads) <= MaxInFlight
        /\ _auth_attempts' = call._auth_attempts
        /\ confirms' = confirms \cup call.threads
        /\ UNCHANGED <<devices, pairings, pairing_codes, now>>
        /\ UNCHANGED relayVars

\* /pair/confirm: pc.used = True, the Pairing row unless one was found, commit
ConfirmWrite(thread) ==
    /\ confirms' = confirms \ {thread}
    /\ pairing_codes' = [pairing_codes EXCEPT ![thread.pc].used = TRUE]
    /\ pairings' = IF thread.existing THEN pairings
                   ELSE Append(pairings, Pairing(thread.host_device_id, thread.client_device_id))
    /\ UNCHANGED <<devices, _auth_attempts, now, pair_calls>>
    /\ UNCHANGED relayVars

\* the instants at which an attempt leaves the window or a code expires
Deadlines ==
    UNION {{_auth_attempts[key][k] + AUTH_RATE_WINDOW : k \in DOMAIN _auth_attempts[key]} :
              key \in DOMAIN _auth_attempts}
    \cup {pairing_codes[i].expires_at : i \in DOMAIN pairing_codes}

\* time passes, up to one of the deadlines
Tick(instant) ==
    /\ now < instant
    /\ instant <= MaxClock
    /\ now' = instant
    /\ UNCHANGED <<devices, pairings, pairing_codes, _auth_attempts, confirms, pair_calls>>
    /\ UNCHANGED relayVars

\* a host and a client of one user, and a host of another
Tenants == <<Device(1, "host"), Device(2, "host"), Device(2, "client")>>

\* the client has just made four attempts with codes that matched no row
EarlierAttempts == [key \in {PairKey(3)} |-> <<0, 0, 0, 0>>]

InitPair ==
    /\ devices = Tenants
    /\ pairings = <<>>
    /\ pairing_codes = <<>>
    /\ pending_commands = <<>>
    /\ message_logs = <<>>
    /\ connections = <<>>
    /\ _conn_lock = 0
    /\ sessions = <<>>
    /\ _auth_attempts \in {<<>>, EarlierAttempts}
    /\ now = 0
    /\ confirms = {}
    /\ pair_calls = 0
    /\ uuids = 0
    /\ ws_received = 0
    /\ NoAuthCalls

NextPair ==
    \/ \E token \in Tokens, device_type \in DeviceTypes : create_device(token, device_type)
    \/ \E token \in Tokens, host_device_id \in 1..MaxDevices, code \in Codes :
          create_pairing_code(token, host_device_id, code)
    \/ \E token \in Tokens, req \in ConfirmRequests : ConfirmRead(token, req)
    \/ \E thread \in confirms : ConfirmWrite(thread)
    \/ \E instant \in Deadlines : Tick(instant)

SpecPair == InitPair /\ [][NextPair]_vars

-----------------------------------------------------------------------------
(* /auth/login, one call after the other, while time passes *)

MaxAuthCalls == 7

restVars == <<devices, pairings, pairing_codes, confirms, pair_calls, pending_commands,
              message_logs, connections, _conn_lock, sessions, uuids, ws_received>>

\* the id of the first User row with this username, or None
FindUser(username) ==
    LET ids == {u \in DOMAIN users : users[u].username = username}
    IN  IF ids = {} THEN None ELSE CHOOSE u \in ids : \A other \in ids : u <= other

\* login: the limiter on the username, then the credentials
login(req) ==
    LET limit == _check_rate_limit(req.username)
        user == FindUser(req.username)
    IN  IF limit.code # 200
        THEN [code |-> 429, user_id |-> None, _auth_attempts |-> limit._auth_attempts]
        ELSE IF \/ user = None
                \/ users[user].password_hash = Null
                \/ ~verify_password(req.password, users[user].password_hash)
        THEN [code |-> 401, user_id |-> None, _auth_attempts |-> limit._auth_attempts]
        ELSE [code |-> 200, user_id |-> user, _auth_attempts |-> limit._auth_attempts]

LoginRequests ==
    {[username |-> n, password |-> p] : n \in {"u1", "nobody"}, p \in {"pw1", "wrong"}}

Login(req) ==
    /\ auth_calls < MaxAuthCalls
    /\ auth_calls' = auth_calls + 1
    /\ _auth_attempts' = login(req)._auth_attempts
    /\ UNCHANGED <<users, limiting, now>>
    /\ UNCHANGED restVars

\* the times of day at which calls are made
LimitInstants == {1, 59, 60, 61, 119, 120}

InitLimit ==
    /\ devices = <<>>
    /\ pairings = <<>>
    /\ pairing_codes = <<>>
    /\ pending_commands = <<>>
    /\ message_logs = <<>>
    /\ connections = <<>>
    /\ _conn_lock = 0
    /\ sessions = <<>>
    /\ _auth_attempts = <<>>
    /\ now = 0
    /\ confirms = {}
    /\ pair_calls = 0
    /\ uuids = 0
    /\ ws_received = 0
    /\ NoAuthCalls

NextLimit ==
    \/ \E req \in LoginRequests : Login(req)
    \/ \E instant \in LimitInstants : Tick(instant)

SpecLimit == InitLimit /\ [][NextLimit]_vars

-----------------------------------------------------------------------------
(* _check_rate_limit called by handlers that run at the same time: login   *)
(* and confirm_pairing are plain functions, which FastAPI runs in worker    *)
(* threads, and the function takes no lock; a thread can be preempted       *)
(* between any two of its statements                                        *)

MaxThreads == 2
MaxLimiterCalls == 6

\* the list a thread's variable attempts refers to: the list that is in
\* _auth_attempts[key] now, or a list that has been replaced there since
\* the thread read it, which nobody changes any more
Alias == [alias |-> TRUE, list |-> <<>>]
Replaced(list) == [alias |-> FALSE, list |-> list]

LimiterThread(id, key, pc, at, attempts) ==
    [id |-> id, key |-> key, pc |-> pc, now |-> at, attempts |-> attempts]

LimiterKeys == {"u1", "pair:2"}

\* now = time.time(); attempts = _auth_attempts[key], which puts an empty
\* list under a key the defaultdict does not have
LimitEnter(key) ==
    /\ auth_calls < MaxLimiterCalls
    /\ Cardinality(limiting) < MaxThreads
    /\ auth_calls' = auth_calls + 1
    /\ _auth_attempts' = Put(_auth_attempts, key,
                             IF key \in DOMAIN _auth_attempts THEN _auth_attempts[key] ELSE <<>>)
    /\ limiting' = limiting \cup {LimiterThread(auth_calls + 1, key, "prune", now, Alias)}
    /\ UNCHANGED <<users, now>>
    /\ UNCHANGED restVars

\* _auth_attempts[key] = [t for t in attempts if now - t < AUTH_RATE_WINDOW]:
\* the list the other threads read before is no longer the one in the dict
LimitPrune(thread) ==
    LET key == thread.key
        attempts == IF thread.attempts.alias THEN _auth_attempts[key]
                    ELSE thread.attempts.list
        pruned == SelectSeq(attempts, LAMBDA t : thread.now - t < AUTH_RATE_WINDOW)
    IN  /\ thread.pc = "prune"
        /\ _auth_attempts' = Put(_auth_attempts, key, pruned)
        /\ limiting' =
              {IF other = thread THEN [other EXCEPT !.pc = "check", !.attempts = Alias]
               ELSE IF other.key = key /\ other.attempts.alias /\ other.pc = "prune"
               THEN [other EXCEPT !.attempts = Replaced(_auth_attempts[key])]
               ELSE other : other \in limiting}
        /\ UNCHANGED <<users, auth_calls, now>>
        /\ UNCHANGED restVars

\* if len(_auth_attempts[key]) >= AUTH_RATE_LIMIT: raise HTTPException(429)
LimitCheck(thread) ==
    /\ thread.pc = "check"
    /\ limiting' =
          IF Len(_auth_attempts[thread.key]) >= AUTH_RATE_LIMIT
          THEN limiting \ {thread}
          ELSE (limiting \ {thread}) \cup {[thread EXCEPT !.pc = "append"]}
    /\ UNCHANGED <<users, auth_calls, _auth_attempts, now>>
    /\ UNCHANGED restVars

\* _auth_attempts[key].append(now)
LimitAppend(thread) ==
    /\ thread.pc = "append"
    /\ _auth_attempts' = Put(_auth_attempts, thread.key,
                             Append(_auth_attempts[thread.key], thread.now))
    /\ limiting' = limiting \ {thread}
    /\ UNCHANGED <<users, auth_calls, now>>
    /\ UNCHANGED restVars

RaceInstants == {30, 60, 90}

NextRace ==
    \/ \E key \in LimiterKeys : LimitEnter(key)
    \/ \E thread \in limiting : LimitPrune(thread)
    \/ \E thread \in limiting : LimitCheck(thread)
    \/ \E thread \in limiting : LimitAppend(thread)
    \/ \E instant \in RaceInstants : Tick(instant)

SpecRace == InitLimit /\ [][NextRace]_vars

-----------------------------------------------------------------------------
(* /auth/register and /auth/google, one call after the other *)

MaxUserCalls == 5

\* an email address "local@domain"; email.split("@")[0] is its local part
Email(local, domain) == [local |-> local, domain |-> domain]

\* a Google subject id: its first eight characters and the rest;
\* google_id[:8] is the first part
GoogleId(head, tail) == [head |-> head, tail |-> tail]

\* register: 400 when a row has the username, otherwise one new row with the
\* hashed password
register(req) ==
    IF FindUser(req.username) # None
    THEN [code |-> 400, id |-> None, users |-> users]
    ELSE [code |-> 200, id |-> Len(users) + 1,
          users |-> Append(users, User(req.username, hash_password(req.password), Null, Null))]

\* the id of the first User row with this google_id / this email, or None
FindGoogleId(google_id) ==
    LET ids == {u \in DOMAIN users : users[u].google_id = google_id}
    IN  IF ids = {} THEN None ELSE CHOOSE u \in ids : \A other \in ids : u <= other

FindEmail(email) ==
    LET ids == {u \in DOMAIN users : users[u].email = email}
    IN  IF ids = {} THEN None ELSE CHOOSE u \in ids : \A other \in ids : u <= other

\* email.split("@")[0] if email else f"google_{google_id[:8]}"
base_username(email, google_id) ==
    IF email # Null THEN email.local ELSE "google_" \o google_id.head

\* the loop body run at most once
FreeUsername_once(base, username, counter) ==
    IF FindUser(username) # None THEN base \o ToString(counter) ELSE username

\* while a row has username: username = f"{base_username}{counter}";
\* counter += 1
RECURSIVE FreeUsername(_, _, _)
FreeUsername(base, username, counter) ==
    IF FindUser(username) # None
    THEN FreeUsername(base, base \o ToString(counter), counter + 1)
    ELSE username

\* verify_google_token: the payload of a token Google vouches for
verify_google_token(id_token) == [sub |-> id_token.sub, email |-> id_token.email]

\* google_login: the user with this google_id, else the user with this
\* email (who is linked to the google_id), else a new user under a username
\* no row has
google_login(id_token) ==
    IF ~id_token.valid THEN [code |-> 401, user_id |-> None, users |-> users]
    ELSE
    LET payload == verify_google_token(id_token)
        google_id == payload.sub
        email == payload.email
        by_id == FindGoogleId(google_id)
        by_email == IF by_id = None /\ email # Null THEN FindEmail(email) ELSE None
        username == FreeUsername(base_username(email, google_id),
                                 base_username(email, google_id), 1)
    IN  IF by_id # None THEN [code |-> 200, user_id |-> by_id, users |-> users]
        ELSE IF by_email # None
        THEN [code |-> 200, user_id |-> by_email,
              users |-> [users EXCEPT ![by_email].google_id = google_id]]
        ELSE [code |-> 200, user_id |-> Len(users) + 1,
              users |-> Append(users, User(username, Null, email, google_id))]

RegisterRequests ==
    {[username |-> n, password |-> "pw"] : n \in {"u1", "ann", "ann1", "google_11111111"}}

IdTokens ==
    {[valid |-> v, sub |-> g, email |-> e] :
        v \in BOOLEAN,
        g \in {GoogleId("11111111", "a"), GoogleId("11111111", "b"), GoogleId("22222222", "c")},
        e \in {Null, Email("ann", "x.org"), Email("ann", "y.org"), Email("u1", "x.org")}}

AuthRegister(req) ==
    /\ auth_calls < MaxUserCalls
    /\ auth_calls' = auth_calls + 1
    /\ users' = register(req).users
    /\ UNCHANGED <<_auth_attempts, limiting, now>>
    /\ UNCHANGED restVars

AuthGoogle(id_token) ==
    /\ auth_calls < MaxUserCalls
    /\ auth_calls' = auth_calls + 1
    /\ users' = google_login(id_token).users
    /\ UNCHANGED <<_auth_attempts, limiting, now>>
    /\ UNCHANGED restVars

NextUsers ==
    \/ \E req \in RegisterRequests : AuthRegister(req)
    \/ \E id_token \in IdTokens : AuthGoogle(id_token)

SpecUsers == InitLimit /\ [][NextUsers]_vars

-----------------------------------------------------------------------------
(* GET /history *)

\* [d.id for d in db.query(Device).filter(Device.user_id == user_id).all()]
user_device_ids(user_id) == {d \in DOMAIN devices : devices[d].user_id = user_id}

\* from_device_id.in_(ids) | to_device_id.in_(ids), NULL being in no list
Involves(log, ids) == log.from_device_id \in ids \/ log.to_device_id \in ids

\* the ids of the rows the query q selects with no regard to their owner
history_query_open(user_id, device_id) ==
    {i \in DOMAIN message_logs :
        device_id # None /\ device_id \in user_device_ids(user_id)
        => Involves(message_logs[i], {device_id})}

\* the ids of the rows the query q selects: those of the user's devices,
\* narrowed to device_id when it is one of them
history_query(user_id, device_id) ==
    {i \in DOMAIN message_logs :
        /\ Involves(message_logs[i], user_device_ids(user_id))
        /\ device_id # None /\ device_id \in user_device_ids(user_id)
           => Involves(message_logs[i], {device_id})}

\* order_by(created_at.desc()): rows are stamped as they are inserted, so
\* the newest row is the one with the greatest id
Descending(ids) ==
    LET n == Len(message_logs)
        InIds(i) == i \in ids
    IN  SelectSeq([k \in 1..n |-> n + 1 - k], InIds)

\* OFFSET offset LIMIT limit in SQLite: a negative limit is no limit
OffsetLimit(rows, offset, limit) ==
    LET rest == SubSeq(rows, offset + 1, Len(rows))
    IN  IF limit < 0 \/ limit >= Len(rest) THEN rest ELSE SubSeq(rest, 1, limit)

HistoryItem(i) ==
    [id |-> i, from_device_id |-> message_logs[i].from_device_id,
     to_device_id |-> message_logs[i].to_device_id,
     msg_type |-> message_logs[i].msg_type, payload |-> loads(message_logs[i].payload)]

HistoryResponse(code, items, total, offset, limit) ==
    [code |-> code, items |-> items, total |-> total, offset |-> offset, limit |-> limit]

\* get_history: 401 without a user, 422 for limit > 200 or offset < 0,
\* otherwise a page of the selected rows, newest first, and their number
get_history(token, device_id, limit, offset) ==
    LET user_id == decode_token(token)
        q == history_query(user_id, device_id)
        logs == OffsetLimit(Descending(q), offset, limit)
    IN  IF user_id = None THEN HistoryResponse(401, <<>>, 0, offset, limit)
        ELSE IF limit > 200 \/ offset < 0 THEN HistoryResponse(422, <<>>, 0, offset, limit)
        ELSE IF user_device_ids(user_id) = {} THEN HistoryResponse(200, <<>>, 0, offset, limit)
        ELSE HistoryResponse(200, [k \in DOMAIN logs |-> HistoryItem(logs[k])],
                             Cardinality(q), offset, limit)

\* the history grows: one tenant's client relays commands to its paired
\* host, which has no session, until the table holds more rows than one
\* page may return
MaxLogs == 201

HttpLogged(call) ==
    /\ Len(message_logs) < MaxLogs
    /\ call.returns.code \in {200, 502} => _conn_lock = 0
    /\ message_logs' = call.message_logs
    /\ pending_commands' = call.pending_commands
    /\ sessions' = call.sessions
    /\ uuids' = call.uuids
    /\ UNCHANGED <<connections, _conn_lock, ws_received>>
    /\ UNCHANGED storeVars

InitHistory == Init /\ devices = TwoTenants /\ pairings = <<Pairing(1, 2)>>

NextHistory ==
    \E token \in Tokens, host_device_id \in NamedIds :
        HttpLogged(get_sims(token, host_device_id))

SpecHistory == InitHistory /\ [][NextHistory]_vars

-----------------------------------------------------------------------------
(* The end of sessions: every device of one tenant is connected and its     *)
(* handler is in the read loop; sockets close and the finally blocks run    *)

\* the socket of each device of OneTenant after accept, bind and greeting
Connected ==
    [d \in DOMAIN OneTenant |->
        [NewSession(d, OneTenant[d].user_id, OneTenant[d].device_type)
            EXCEPT !.pc = "loop", !.heartbeat = "running",
                   !.out = <<[type |-> "connected", device_id |-> d]>>]]

InitOffline ==
    /\ devices = OneTenant
    /\ pairings = <<Pairing(4, 1), Pairing(3, 2), Pairing(4, 2)>>
    /\ pairing_codes = [p \in DOMAIN pairings |->
                           PairingCode(1, pairings[p].host_device_id, "000000", 600, TRUE)]
    /\ pending_commands = <<>>
    /\ message_logs = <<>>
    /\ sessions = Connected
    /\ connections = [d \in DOMAIN OneTenant |-> d]
    /\ _conn_lock = 0
    /\ _auth_attempts = <<>>
    /\ now = 0
    /\ confirms = {}
    /\ pair_calls = 0
    /\ uuids = 0
    /\ ws_received = 0
    /\ NoAuthCalls

NextOffline ==
    \/ \E ws \in DOMAIN sessions : PeerClose(ws)
    \/ \E ws \in DOMAIN sessions : Disconnect(ws)
    \/ \E ws \in DOMAIN sessions : Cleanup(ws)
    \/ \E ws \in DOMAIN sessions : Notify(ws)

\* a handler that has left the read loop is a task of the event loop which
\* is resumed whenever it can run: _conn_lock is released after a bounded
\* critical section and a send to a socket returns or raises
FairOffline ==
    \A ws \in DOMAIN Connected : WF_vars(Cleanup(ws)) /\ WF_vars(Notify(ws))

SpecOffline == InitOffline /\ [][NextOffline]_vars /\ FairOffline

\* the same devices, which may also connect again
SpecReconnect == InitOffline /\ [][NextReconnect]_vars

-----------------------------------------------------------------------------
(* Commands queued for a host that connects, loses its socket and connects *)
(* again; the writes of the relay to the store may fail                     *)

MaxQueued == 3
MaxHostSockets == 2

\* a command endpoint gets as far as _relay_command, which waits for
\* _conn_lock; db.commit() of the MessageLog row and of the
\* PendingCommand row may raise, which _relay_command logs and passes over:
\* the row is rolled back and the answer is the same
HttpStore(call, log_ok, queue_ok) ==
    /\ uuids < MaxQueued
    /\ call.returns.code \in {200, 502}
    /\ _conn_lock = 0
    /\ message_logs' = IF log_ok THEN call.message_logs ELSE message_logs
    /\ pending_commands' = IF queue_ok THEN call.pending_commands ELSE pending_commands
    /\ sessions' = call.sessions
    /\ uuids' = call.uuids
    /\ UNCHANGED <<connections, _conn_lock, ws_received>>
    /\ UNCHANGED storeVars

\* ws_host of a host of the caller, up to ws.accept()
HostOpen(device_id, token) ==
    LET user_id == decode_token(token)
    IN  /\ Len(sessions) < MaxHostSockets
        /\ user_id # None
        /\ _verify_device_ownership(device_id, user_id, "host")
        /\ sessions' = Append(sessions, NewSession(device_id, user_id, "host"))
        /\ UNCHANGED <<pending_commands, message_logs, connections, _conn_lock,
                       uuids, ws_received>>
        /\ UNCHANGED storeVars

InitDrain == Init /\ devices = TwoTenants /\ pairings = <<Pairing(1, 2)>>

NextDrain ==
    \/ \E token \in Tokens, host_device_id \in NamedIds, log_ok, queue_ok \in BOOLEAN :
          HttpStore(get_sims(token, host_device_id), log_ok, queue_ok)
    \/ \E token \in Tokens, device_id \in NamedIds : HostOpen(device_id, token)
    \/ \E ws \in DOMAIN sessions : Bind(ws)
    \/ \E ws \in DOMAIN sessions : Evict(ws)
    \/ \E ws \in DOMAIN sessions : Drain(ws)
    \/ \E ws \in DOMAIN sessions : PeerClose(ws)
    \/ \E ws \in DOMAIN sessions : Disconnect(ws)
    \/ \E ws \in DOMAIN sessions : Cleanup(ws)

SpecDrain == InitDrain /\ [][NextDrain]_vars

\* a handler that has been accepted is a task of the event loop: it is
\* resumed when the lock is free and when a send or a close has returned
FairDrain ==
    \A ws \in 1..MaxHostSockets :
        /\ WF_vars(ws \in DOMAIN sessions /\ Bind(ws))
        /\ WF_vars(ws \in DOMAIN sessions /\ Evict(ws))
        /\ WF_vars(ws \in DOMAIN sessions /\ Drain(ws))

SpecDrainFair == SpecDrain /\ FairDrain

-----------------------------------------------------------------------------
(* Sessions that last longer than HEARTBEAT_INTERVAL: the heartbeat task   *)
(* of each handler pings its socket while the peers send nothing           *)

MaxPings == 4
MaxBeatSockets == 2

HEARTBEAT_INTERVAL == 30
HEARTBEAT_TIMEOUT == 60

Ping == [type |-> "ping"]

\* the pings sent on the socket so far
Pings(ss, ws) == Cardinality({k \in DOMAIN ss[ws].out : ss[ws].out[k] = Ping})

\* the pings sent on all sockets so far
RECURSIVE AllPings(_, _)
AllPings(ss, ws) == IF ws > Len(ss) THEN 0 ELSE Pings(ss, ws) + AllPings(ss, ws + 1)

\* _server_heartbeat after asyncio.sleep(HEARTBEAT_INTERVAL): the ping is
\* sent and the task sleeps again, or the send raises and the task returns
_server_heartbeat(ws) ==
    /\ sessions[ws].heartbeat = "running"
    /\ IsOpen(sessions, ws) => AllPings(sessions, 1) < MaxPings
    /\ sessions' = IF IsOpen(sessions, ws)
                   THEN send_json(sessions, ws, Ping)
                   ELSE [sessions EXCEPT ![ws].heartbeat = "returned"]
    /\ UNCHANGED <<pending_commands, message_logs, connections, _conn_lock, uuids,
                   ws_received>>
    /\ UNCHANGED storeVars

\* a pass of the loop of _ws_loop raises something other than
\* WebSocketDisconnect (msg.get on a frame that is JSON but no object, or a
\* query of the store that fails): the exception leaves _ws_loop and the
\* finally block runs on a socket that is still open
LoopRaises(ws) ==
    /\ sessions[ws].pc = "loop"
    /\ IsOpen(sessions, ws)
    /\ sessions' = [sessions EXCEPT ![ws].pc = "cleanup", ![ws].heartbeat = cancel(@)]
    /\ UNCHANGED <<pending_commands, message_logs, connections, _conn_lock, uuids,
                   ws_received>>
    /\ UNCHANGED storeVars

\* ws_host / ws_client of a device of the caller, up to ws.accept()
BeatOpen(device_id, token, device_type) ==
    LET user_id == decode_token(token)
    IN  /\ Len(sessions) < MaxBeatSockets
        /\ user_id # None
        /\ _verify_device_ownership(device_id, user_id, device_type)
        /\ sessions' = Append(sessions, NewSession(device_id, user_id, device_type))
        /\ UNCHANGED <<pending_commands, message_logs, connections, _conn_lock,
                       uuids, ws_received>>
        /\ UNCHANGED storeVars

\* nothing is connected; a host and a client that are paired, and the host
\* and the client of another tenant
InitHeartbeat ==
    /\ Init
    /\ devices = TwoTenants
    /\ pairings = <<Pairing(1, 2)>>

NextHeartbeat ==
    \/ \E token \in Tokens, device_id \in DOMAIN devices, device_type \in DeviceTypes :
          BeatOpen(device_id, token, device_type)
    \/ \E ws \in DOMAIN sessions : Bind(ws)
    \/ \E ws \in DOMAIN sessions : Evict(ws)
    \/ \E ws \in DOMAIN sessions : _server_heartbeat(ws)
    \/ \E ws \in DOMAIN sessions : LoopRaises(ws)
    \/ \E ws \in DOMAIN sessions : PeerClose(ws)
    \/ \E ws \in DOMAIN sessions : Disconnect(ws)
    \/ \E ws \in DOMAIN sessions : Cleanup(ws)

SpecHeartbeat == InitHeartbeat /\ [][NextHeartbeat]_vars

\* every handler and every heartbeat task is a task of the event loop: it
\* is resumed when the lock it waits for is free, when its sleep is over,
\* and when its send, close or receive has returned or raised
FairHeartbeat ==
    \A ws \in 1..MaxBeatSockets :
        /\ WF_vars(ws \in DOMAIN sessions /\ Bind(ws))
        /\ WF_vars(ws \in DOMAIN sessions /\ Evict(ws))
        /\ WF_vars(ws \in DOMAIN sessions /\ Disconnect(ws))
        /\ WF_vars(ws \in DOMAIN sessions /\ Cleanup(ws))

SpecHeartbeatFair == SpecHeartbeat /\ FairHeartbeat

-----------------------------------------------------------------------------
(* GET /devices *)

\* a faulty list_devices: a device is online while one of its sockets is open
list_devices_open(token) ==
    LET user_id == decode_token(token)
        owned == {d \in DeviceIds : devices[d].user_id = user_id}
    IN  IF user_id = None THEN [code |-> 401, items |-> <<>>]
        ELSE [code |-> 200,
              items |-> [d \in owned |->
                            [id |-> d, type |-> devices[d].device_type,
                             is_online |-> \E ws \in DOMAIN sessions :
                                              /\ sessions[ws].device_id = d
                                              /\ IsOpen(sessions, ws)]]]

\* the rows of the caller's devices, is_online computed from connections
list_devices(token) ==
    LET user_id == decode_token(token)
        owned == {d \in DeviceIds : devices[d].user_id = user_id}
    IN  IF user_id = None THEN [code |-> 401, items |-> <<>>]
        ELSE [code |-> 200,
              items |-> [d \in owned |->
                            [id |-> d, type |-> devices[d].device_type,
                             is_online |-> d \in DOMAIN connections]]]

-----------------------------------------------------------------------------
(* Claims about the command relay over HTTP *)

\* the HTTP command requests: who calls, which device is named, the command
\* frame the request asks for, and the call
HttpRequests ==
    {[token |-> t, to_device_id |-> r.to_device_id, endpoint |-> "sms", req |-> r,
      frame |-> [type |-> "command", cmd |-> "SEND_SMS", sim |-> r.sim, to |-> r.to,
                 body |-> r.body]] : t \in Tokens, r \in SmsCommands}
    \cup
    {[token |-> t, to_device_id |-> r.to_device_id, endpoint |-> "call", req |-> r,
      frame |-> [type |-> "command", cmd |-> "MAKE_CALL", sim |-> r.sim, to |-> r.to]]
        : t \in Tokens, r \in CallCommands}
    \cup
    {[token |-> t, to_device_id |-> d, endpoint |-> "sims", req |-> d,
      frame |-> [type |-> "command", cmd |-> "GET_SIMS"]] : t \in Tokens, d \in NamedIds}

\* what the endpoint of a request does in the current state
CallOf(q) ==
    CASE q.endpoint = "sms"  -> send_sms(q.token, q.req)
      [] q.endpoint = "call" -> make_call(q.token, q.req)
      [] q.endpoint = "sims" -> get_sims(q.token, q.req)

\* the caller of a request holds a valid token
ByUser(q) == q.token \in {Token(u) : u \in Users}

\* the devices of a user that have the role client
ClientsOf(user_id) ==
    {d \in DeviceIds : devices[d].user_id = user_id /\ devices[d].device_type = "client"}

\* user u may command host h: u owns a client device, the first of them is
\* paired with h, and h belongs to u
Authorized(u, h) ==
    /\ ClientsOf(u) # {}
    /\ \E c \in ClientsOf(u) :
          /\ \A e \in ClientsOf(u) : c <= e
          /\ \E p \in DOMAIN pairings : pairings[p] = Pairing(h, c)
    /\ h \in DeviceIds
    /\ devices[h].user_id = u

\* the frame with the parameters of the request and this req_id
Carries(frame, wanted, req_id) ==
    /\ DOMAIN frame = (DOMAIN wanted) \cup {"req_id"}
    /\ \A k \in DOMAIN wanted : frame[k] = wanted[k]
    /\ frame.req_id = req_id

C2_SentWhenHostHasSession ==
    [][uuids' # uuids => \A q \in HttpRequests :
         (/\ ByUser(q)
          /\ Authorized(q.token.user_id, q.to_device_id)
          /\ q.to_device_id \in DOMAIN connections
          /\ sessions[connections[q.to_device_id]].state = "open"
          /\ Http(CallOf(q)))
         => LET ws == connections[q.to_device_id]
            IN  /\ CallOf(q).returns.code = 200
                /\ CallOf(q).returns.status = "sent"
                /\ CallOf(q).returns.req_id # None
                /\ Len(sessions'[ws].out) = Len(sessions[ws].out) + 1
                /\ Carries(sessions'[ws].out[Len(sessions'[ws].out)], q.frame,
                           CallOf(q).returns.req_id)
                /\ \A other \in DOMAIN sessions \ {ws} : sessions'[other] = sessions[other]
                /\ pending_commands' = pending_commands
    ]_vars

\* a command was sent live to the registered socket of a host
C2_Witness ==
    \E d \in DOMAIN connections :
        /\ pending_commands = <<>>
        /\ uuids > 0
        /\ \E k \in DOMAIN sessions[connections[d]].out :
              LET frame == sessions[connections[d]].out[k]
              IN  /\ "cmd" \in DOMAIN frame
                  /\ frame.req_id = uuids

-----------------------------------------------------------------------------
(* Claims about the replay of queued commands *)

\* the handler of ws has not yet put ws in the registry
Unbound(ss, ws) == ss[ws].pc \in {"bind", "evict"}

\* the handler of ws is between the registration and the greeting
Draining(ss, ws) == ss[ws].pc = "drain"

\* the rows that a bind of this host has to replay
UndeliveredOf(device_id) ==
    {i \in DOMAIN pending_commands :
        /\ pending_commands[i].host_device_id = device_id
        /\ ~pending_commands[i].delivered}

-----------------------------------------------------------------------------
(* Claims about the relay between sockets *)

\* a Pairing row links the two devices, in either role
Paired(a, b) ==
    \E p \in DOMAIN pairings :
        \/ pairings[p] = Pairing(a, b)
        \/ pairings[p] = Pairing(b, a)

\* C4: a frame received on a device's session is delivered to, and logged
\* against, only a device that has a Pairing row with the sender, also when
\* the sender names the target in to_device_id
C4_ForwardOnlyToPaired ==
    /\ \A r \in DOMAIN message_logs :
          Paired(message_logs[r].from_device_id, message_logs[r].to_device_id)
    /\ \A ws \in DOMAIN sessions : \A k \in DOMAIN sessions[ws].out :
          LET frame == sessions[ws].out[k]
          IN  "from_device_id" \in DOMAIN frame
              => Paired(frame.from_device_id, sessions[ws].device_id)

-----------------------------------------------------------------------------
(* Claims about the session registry *)

\* the sockets of a device that are open and whose handler is past the
\* registration
LiveSockets(ss, device_id) ==
    {ws \in DOMAIN ss :
        /\ ss[ws].device_id = device_id
        /\ ss[ws].state = "open"
        /\ ss[ws].pc \in {"drain", "loop"}}

\* every entry of the registry holds a socket of its device, and a device
\* has no live socket but the one in its entry
OneEntryPerDevice(conns, ss) ==
    /\ \A d \in DOMAIN conns : conns[d] \in DOMAIN ss /\ ss[conns[d]].device_id = d
    /\ \A d \in DeviceIds : \A ws \in LiveSockets(ss, d) :
          d \in DOMAIN conns /\ conns[d] = ws

\* C5: the registry holds at most one session per device in every state;
\* binding a session S2 of a device whose entry holds S1 closes S1 with code
\* 1008 and reason "Replaced by new connection", and once S2 is registered
\* the entry of the device holds S2
C5_SingleSessionPerDevice ==
    /\ []OneEntryPerDevice(connections, sessions)
    /\ [][/\ OneEntryPerDevice(connections', sessions')
          /\ \A S2 \in DOMAIN sessions :
               LET d == sessions[S2].device_id
                   S1 == Get(connections, d)
               IN  /\ (sessions[S2].pc = "bind" /\ sessions'[S2].pc # "bind" /\ S1 # None)
                      => /\ sessions'[S1].state = "closed"
                         /\ sessions[S1].state = "open"
                            => /\ sessions'[S1].close_code = 1008
                               /\ sessions'[S1].close_reason = "Replaced by new connection"
                   /\ (Unbound(sessions, S2) /\ ~Unbound(sessions', S2))
                      => /\ connections'[d] = S2
                         /\ S1 # None => sessions[S1].state = "closed"
                         /\ \A e \in DOMAIN connections' \ {d} :
                               e \in DOMAIN connections /\ connections'[e] = connections[e]
       ]_vars

\* a second session of a device has replaced the first, which was closed
\* with the eviction code
C5_Witness ==
    \E S1, S2 \in DOMAIN sessions :
        /\ S1 # S2
        /\ sessions[S1].device_id = sessions[S2].device_id
        /\ sessions[S1].state = "closed"
        /\ sessions[S1].close_code = 1008
        /\ sessions[S1].close_reason = "Replaced by new connection"
        /\ sessions[S2].state = "open"
        /\ sessions[S2].pc = "loop"
        /\ Get(connections, sessions[S2].device_id) = S2


\* the handler of ws runs its finally block in this step
CleansUp(ws) == sessions[ws].pc = "cleanup" /\ sessions'[ws].pc # "cleanup"

\* C6: the cleanup of a session that is not the one registered for its
\* device leaves the registry as it is, whatever ran in between; an entry is
\* removed only by the cleanup of the very session it holds
C6_CleanupKeepsSuccessor ==
    [][/\ \A ws \in DOMAIN sessions :
            (CleansUp(ws) /\ Get(connections, sessions[ws].device_id) # ws)
            => connections' = connections
       /\ \A d \in DOMAIN connections :
            d \notin DOMAIN connections' => CleansUp(connections[d])
    ]_vars

\* an evicted session has run its cleanup and its successor is still the
\* registered session of the device
C6_Witness ==
    \E old, new \in DOMAIN sessions :
        /\ old # new
        /\ sessions[old].device_id = sessions[new].device_id
        /\ sessions[old].close_code = 1008
        /\ sessions[old].pc \in {"notify", "done"}
        /\ sessions[new].state = "open"
        /\ Get(connections, sessions[new].device_id) = new

-----------------------------------------------------------------------------
(* Claims about authorization *)

\* what a request that must be refused gets: 400 without a client device,
\* else 403, and nothing is logged, queued or sent
Refused(q) ==
    LET call == CallOf(q)
    IN  /\ call.returns.code = IF ClientsOf(q.token.user_id) = {} THEN 400 ELSE 403
        /\ call.message_logs = message_logs
        /\ call.pending_commands = pending_commands
        /\ call.sessions = sessions
        /\ call.uuids = uuids

MayOpen(device_id, token, device_type) ==
    /\ token \in {Token(u) : u \in Users}
    /\ device_id \in DeviceIds
    /\ devices[device_id].user_id = token.user_id
    /\ devices[device_id].device_type = device_type

\* the session was opened by the owner of its device on the endpoint of the
\* device's role
OpenedByOwner(session) ==
    /\ session.user_id \in Users
    /\ MayOpen(session.device_id, Token(session.user_id), session.device_type)

\* C10: every session accepted, and so every session in the registry, is for
\* a device that exists, is owned by the user of the token and has the role
\* of the endpoint; an open attempt that fails one of these changes neither
\* the registry nor any session, and a socket is closed by the server only
\* in the bind of an accepted session of the same device
C10_BindOnlyOwnDeviceOfRole ==
    /\ [](\A ws \in DOMAIN sessions : OpenedByOwner(sessions[ws]))
    /\ [](\A d \in DOMAIN connections :
            connections[d] \in DOMAIN sessions /\ sessions[connections[d]].device_id = d)
    /\ [][/\ Len(sessions') # Len(sessions)
             => \A d \in NamedIds, token \in Tokens, device_type \in DeviceTypes :
                   (WsOpen(d, token, device_type) /\ ~MayOpen(d, token, device_type))
                   => UNCHANGED <<connections, sessions>>
          /\ \A ws \in DOMAIN sessions :
                (sessions[ws].state = "open" /\ sessions'[ws].state = "closed")
                => \/ sessions'[ws].close_code = 1000
                   \/ \E by \in DOMAIN sessions :
                         /\ sessions[by].device_id = sessions[ws].device_id
                         /\ OpenedByOwner(sessions[by])
                         /\ sessions[by].pc = "bind"
                         /\ sessions'[by].pc = "evict"
          /\ \A d \in DOMAIN connections' :
                (d \notin DOMAIN connections \/ connections[d] # connections'[d])
                => /\ Unbound(sessions, connections'[d])
                   /\ OpenedByOwner(sessions[connections'[d]])
       ]_vars

\* a device has a registered, open session while further open attempts,
\* valid or not, can still arrive
C10_Witness ==
    \E d \in DOMAIN connections :
        /\ sessions[connections[d]].state = "open"
        /\ sessions[connections[d]].pc = "loop"
        /\ OpenedByOwner(sessions[connections[d]])
        /\ Requests < MaxRequests
        /\ \E token \in Tokens, device_type \in DeviceTypes :
              ~MayOpen(d, token, device_type)

-----------------------------------------------------------------------------
(* Claims about pairing *)

\* every Pairing row links a host to a client of the same owner
PairingsLinkOwnDevices ==
    \A p \in DOMAIN pairings :
        LET host == pairings[p].host_device_id
            client == pairings[p].client_device_id
        IN  /\ host \in DeviceIds
            /\ client \in DeviceIds
            /\ devices[host].device_type = "host"
            /\ devices[client].device_type = "client"
            /\ devices[host].user_id = devices[client].user_id

\* the PairingCode row is unused and unexpired
Live(i) == ~pairing_codes[i].used /\ pairing_codes[i].expires_at > now

\* the confirm requests a user can make with a client device of their own
\* while the model still serves calls
OwnConfirms ==
    {q \in [token : {Token(u) : u \in Users}, req : ConfirmRequests] :
        /\ pair_calls < MaxPairCalls
        /\ q.req.client_device_id \in ClientsOf(q.token.user_id)}

\* some live row with the code of the request was issued by another user
CodeOfAnother(q) ==
    \E i \in DOMAIN pairing_codes :
        /\ Live(i)
        /\ pairing_codes[i].code = q.req.code
        /\ pairing_codes[i].user_id # q.token.user_id

\* the live row with the code of the request that has the lowest id was
\* issued by another user
FirstCodeOfAnother(q) ==
    \E i \in DOMAIN pairing_codes :
        /\ Live(i)
        /\ pairing_codes[i].code = q.req.code
        /\ pairing_codes[i].user_id # q.token.user_id
        /\ \A j \in 1..(i - 1) : ~(Live(j) /\ pairing_codes[j].code = q.req.code)

\* the client device of the request has used up its attempts of the window
RateLimited(q) ==
    LET key == PairKey(q.req.client_device_id)
    IN  /\ key \in DOMAIN _auth_attempts
        /\ Cardinality({k \in DOMAIN _auth_attempts[key] :
                           now - _auth_attempts[key][k] < AUTH_RATE_WINDOW}) >= AUTH_RATE_LIMIT

\* the request is answered 403 and no Pairing row is going to be written
Forbidden(q) ==
    /\ confirm_pairing(q.token, q.req).code = 403
    /\ confirm_pairing(q.token, q.req).threads = {}

C8_OneLiveCodePerHost ==
    /\ [](\A i, j \in DOMAIN pairing_codes :
            (Live(i) /\ Live(j) /\ pairing_codes[i].host_device_id = pairing_codes[j].host_device_id)
            => i = j)
    /\ [][Len(pairing_codes') > Len(pairing_codes)
          => LET new == pairing_codes'[Len(pairing_codes')]
             IN  /\ Len(pairing_codes') = Len(pairing_codes) + 1
                 /\ ~new.used
                 /\ new.expires_at = now + CODE_TTL
                 /\ \A i \in DOMAIN pairing_codes :
                       IF pairing_codes[i].host_device_id = new.host_device_id
                       THEN pairing_codes'[i] = [pairing_codes[i] EXCEPT !.used = TRUE]
                       ELSE pairing_codes'[i] = pairing_codes[i]
       ]_vars

\* a host has a second code while its first, now marked used, has not
\* expired
C8_Witness ==
    \E i, j \in DOMAIN pairing_codes :
        /\ i < j
        /\ pairing_codes[i].host_device_id = pairing_codes[j].host_device_id
        /\ pairing_codes[i].used
        /\ pairing_codes[i].expires_at > now
        /\ Live(j)
        /\ \A p \in DOMAIN pairings :
              pairings[p].host_device_id # pairing_codes[i].host_device_id

-----------------------------------------------------------------------------
(* Claims about the frames relayed between sockets *)

\* the frame is a reply of the read loop to the sender itself
IsReply(frame) ==
    \/ "error" \in DOMAIN frame
    \/ ("type" \in DOMAIN frame /\ frame.type = "pong")

\* the payload with from_device_id set to this device and nothing else changed
Stamped(payload, device_id) ==
    [k \in (DOMAIN payload) \cup {"from_device_id"} |->
        IF k = "from_device_id" THEN device_id ELSE payload[k]]

\* the frame that this step has put on socket t
Delivered(t) == sessions'[t].out[Len(sessions'[t].out)]

\* C11: every command, event or webrtc frame the server forwards from a
\* session carries from_device_id equal to the device of the sending
\* session, whatever from_device_id the sender wrote, and is otherwise the
\* payload as received
C11_ForwardStampsSender ==
    [][ws_received' # ws_received
       => \A ws \in DOMAIN sessions, raw \in WsTexts :
             _ws_loop(ws, raw)
             => \A t \in DOMAIN sessions :
                   sessions'[t].out # sessions[t].out
                   => /\ sessions'[t].out = Append(sessions[t].out, Delivered(t))
                      /\ \/ t = ws /\ IsReply(Delivered(t))
                         \/ /\ IsJson(raw)
                            /\ TypeOf(loads(raw)) \in {"command", "event", "webrtc"}
                            /\ Delivered(t) = Stamped(loads(raw), sessions[ws].device_id)
    ]_vars

\* a frame whose sender claimed to be device 1 has reached its target with
\* the id of the device that sent it
C11_Witness ==
    \E t \in DOMAIN sessions : \E k \in DOMAIN sessions[t].out :
        LET frame == sessions[t].out[k]
        IN  /\ "event" \in DOMAIN frame
            /\ frame.event = "SMS_SENT"
            /\ frame.from_device_id # 1
            /\ frame.req_id = 77
            /\ \E r \in DOMAIN message_logs :
                  /\ message_logs[r].from_device_id = frame.from_device_id
                  /\ loads(message_logs[r].payload).from_device_id = 1


\* the device a frame of this session is for: to_device_id when the frame
\* names one, else the other side of the first Pairing row of the sender,
\* None without one
TargetOf(ws, msg) ==
    LET me == sessions[ws]
        mine == {p \in DOMAIN pairings :
                    IF me.device_type = "host"
                    THEN pairings[p].host_device_id = me.device_id
                    ELSE pairings[p].client_device_id = me.device_id}
        first == CHOOSE p \in mine : \A other \in mine : p <= other
    IN  IF "to_device_id" \in DOMAIN msg THEN msg.to_device_id
        ELSE IF mine = {} THEN None
        ELSE IF me.device_type = "host" THEN pairings[first].client_device_id
        ELSE pairings[first].host_device_id

\* the frame is one that the read loop relays
Relayed(raw) == IsJson(raw) /\ TypeOf(loads(raw)) \in {"command", "event", "webrtc"}

\* the pass of the read loop over this frame finds its target without a
\* registry entry
TargetAbsent(ws, raw) ==
    /\ Relayed(raw)
    /\ TargetOf(ws, loads(raw)) # None
    /\ TargetOf(ws, loads(raw)) \notin DOMAIN connections

\* a command frame of a client session for a host that has no registry entry
ClientCommandForAbsentHost(ws, raw) ==
    /\ TargetAbsent(ws, raw)
    /\ sessions[ws].device_type = "client"
    /\ TypeOf(loads(raw)) = "command"
    /\ TargetOf(ws, loads(raw)) \in DeviceIds
    /\ devices[TargetOf(ws, loads(raw))].device_type = "host"

\* the reply the sender gets for a frame whose target is absent
TargetOffline(ws, raw) ==
    [error |-> "target_offline", target_device_id |-> TargetOf(ws, loads(raw)),
     req_id |-> IF "req_id" \in DOMAIN loads(raw) THEN loads(raw).req_id ELSE None]

C13_TargetOfflineReply ==
    [][ws_received' # ws_received
       => \A ws \in DOMAIN sessions, raw \in WsTexts :
             (_ws_loop(ws, raw) /\ TargetAbsent(ws, raw))
             => /\ sessions'[ws].out = Append(sessions[ws].out, TargetOffline(ws, raw))
                /\ \A t \in DOMAIN sessions : t # ws => sessions'[t] = sessions[t]
                /\ sessions'[ws].state = "open"
                /\ sessions'[ws].pc = "loop"
                /\ connections' = connections
                /\ pending_commands' = pending_commands
    ]_vars

\* a host has been told target_offline for a frame that carried a req_id,
\* and its session is still open and in the read loop
C13_Witness ==
    \E ws \in DOMAIN sessions : \E k \in DOMAIN sessions[ws].out :
        LET frame == sessions[ws].out[k]
        IN  /\ sessions[ws].device_type = "host"
            /\ sessions[ws].state = "open"
            /\ sessions[ws].pc = "loop"
            /\ "error" \in DOMAIN frame
            /\ frame.error = "target_offline"
            /\ frame.req_id \in {77, 78}
            /\ frame.target_device_id \notin DOMAIN connections
            /\ pending_commands = <<>>


\* the departed device's opposite-side peer t is registered with an open
\* socket when the handler of ws, still the registered socket of its
\* device, enters its finally block
Owed(ws, t) ==
    /\ sessions[ws].pc = "cleanup"
    /\ Get(connections, sessions[ws].device_id) = ws
    /\ sessions[ws].device_type # sessions[t].device_type
    /\ Paired(sessions[ws].device_id, sessions[t].device_id)
    /\ Get(connections, sessions[t].device_id) = t
    /\ IsOpen(sessions, t)

DEVICE_OFFLINE(device_id) ==
    [type |-> "event", event |-> "DEVICE_OFFLINE", device_id |-> device_id]

Told(ws, t) ==
    \E k \in DOMAIN sessions[t].out :
        sessions[t].out[k] = DEVICE_OFFLINE(sessions[ws].device_id)

\* C14: when a device's session ends and its handler removes it from the
\* registry, every opposite-side paired peer that is registered with an open
\* socket at that time is eventually sent {type: event, event:
\* DEVICE_OFFLINE, device_id: the departed device}, unless the peer's own
\* socket closes first; a send to another peer that fails does not stop
\* this, and until the handler is done no peer has been sent anything else
C14_PeersToldOffline ==
    /\ \A ws \in DOMAIN Connected, t \in DOMAIN Connected :
          Owed(ws, t) ~> (Told(ws, t) \/ ~IsOpen(sessions, t))
    /\ [][\A ws \in DOMAIN sessions :
            (sessions[ws].pc \in {"cleanup", "notify"} /\ sessions'[ws] # sessions[ws])
            => \A t \in DOMAIN sessions :
                  sessions'[t].out # sessions[t].out
                  => /\ sessions'[t].out =
                           Append(sessions[t].out, DEVICE_OFFLINE(sessions[ws].device_id))
                     /\ Owed(ws, t) \/ sessions[ws].pc = "notify"
                     /\ Paired(sessions[ws].device_id, sessions[t].device_id)
       ]_vars

\* host 4 has left: the send to its first peer, client 1, failed on a
\* socket that is closed but still registered, and its second peer,
\* client 2, has been told
C14_Witness ==
    /\ sessions[4].pc = "done"
    /\ 4 \notin DOMAIN connections
    /\ Get(connections, 1) = 1
    /\ ~IsOpen(sessions, 1)
    /\ ~Told(4, 1)
    /\ Told(4, 2)


-----------------------------------------------------------------------------
(* Claims about the start of a session *)

\* C15: the first frame the server puts on an accepted socket is
\* {type: "connected", device_id}; replayed commands and frames relayed
\* live by other handlers come after it, and no inbound frame of the session
\* is processed while the replay is still running
C15_GreetingFirst ==
    /\ [](\A ws \in DOMAIN sessions :
            sessions[ws].out # <<>>
            => sessions[ws].out[1] = [type |-> "connected", device_id |-> sessions[ws].device_id])
    /\ [][ws_received' # ws_received
          => \A ws \in DOMAIN sessions :
                sessions[ws].pc \in {"bind", "drain"} => sessions'[ws] = sessions[ws]
       ]_vars


-----------------------------------------------------------------------------
(* Claims about the confirmation of pairing codes *)

\* the live row with the code of the request that has the lowest id is row
\* i, and it was issued by the caller
Finds(q, i) ==
    /\ Live(i)
    /\ pairing_codes[i].code = q.req.code
    /\ pairing_codes[i].user_id = q.token.user_id
    /\ \A j \in 1..(i - 1) : ~(Live(j) /\ pairing_codes[j].code = q.req.code)

\* the Pairing rows of the host of code row i and the client of the request
PairingsOf(q, i) ==
    {p \in DOMAIN pairings :
        pairings[p] = Pairing(pairing_codes[i].host_device_id, q.req.client_device_id)}

Dead(q) ==
    \A i \in DOMAIN pairing_codes : pairing_codes[i].code = q.req.code => ~Live(i)

\* row i is the last one issued for its host
Latest(i) ==
    \A j \in DOMAIN pairing_codes :
        pairing_codes[j].host_device_id = pairing_codes[i].host_device_id => j <= i

-----------------------------------------------------------------------------
(* Claims about GET /devices *)

\* the handler of ws has run the unbind of its finally block and no other
\* socket was ever opened for its device
OnlySessionCleanedUp(ws) ==
    /\ sessions[ws].pc \in {"notify", "done"}
    /\ \A other \in DOMAIN sessions :
          other # ws => sessions[other].device_id # sessions[ws].device_id

\* C18: GET /devices lists the devices of the caller, each with is_online
\* true exactly when connections holds an entry for its id at the call, and
\* a device whose only session has closed and been cleaned up is reported
\* offline
C18_OnlineIffRegistered ==
    /\ \A u \in Users :
          LET items == list_devices(Token(u)).items
          IN  /\ DOMAIN items = {d \in DeviceIds : devices[d].user_id = u}
              /\ \A d \in DOMAIN items :
                    items[d].is_online <=> (d \in DOMAIN connections)
    /\ \A ws \in DOMAIN sessions :
          OnlySessionCleanedUp(ws)
          => ~list_devices(Token(sessions[ws].user_id)).items[sessions[ws].device_id].is_online

\* a user has one device that is reported offline after its only session
\* was closed and cleaned up, and another that is reported online although
\* its socket is already closed, because it is still registered
C18_Witness ==
    \E ws, t \in DOMAIN sessions :
        LET items == list_devices(Token(sessions[ws].user_id)).items
        IN  /\ OnlySessionCleanedUp(ws)
            /\ ~items[sessions[ws].device_id].is_online
            /\ sessions[t].user_id = sessions[ws].user_id
            /\ ~IsOpen(sessions, t)
            /\ items[sessions[t].device_id].is_online


-----------------------------------------------------------------------------
(* Claims about the message log *)

\* C19: for every command frame that was put on the socket of a target,
\* relayed live from an HTTP call or from a session or replayed from the
\* queue, there is a MessageLog row to that device whose payload is the
\* delivered frame and whose from_device_id is the sender the frame names
C19_DeliveredCommandsLogged ==
    \A t \in DOMAIN sessions : \A k \in DOMAIN sessions[t].out :
        LET frame == sessions[t].out[k]
        IN  ("type" \in DOMAIN frame /\ frame.type = "command")
            => \E r \in DOMAIN message_logs :
                  /\ message_logs[r].to_device_id = sessions[t].device_id
                  /\ message_logs[r].msg_type = "command"
                  /\ IsJson(message_logs[r].payload)
                  /\ loads(message_logs[r].payload) = frame
                  /\ "from_device_id" \in DOMAIN frame
                     => message_logs[r].from_device_id = frame.from_device_id


-----------------------------------------------------------------------------
(* Claims about HTTP commands whose send fails *)

\* the command with this req_id was logged, but no PendingCommand row holds
\* it and no socket has been sent it
Abandoned(R) ==
    /\ \E r \in DOMAIN message_logs :
          /\ IsJson(message_logs[r].payload)
          /\ Get(loads(message_logs[r].payload), "req_id") = R
    /\ \A i \in DOMAIN pending_commands :
          Get(loads(pending_commands[i].payload), "req_id") # R
    /\ \A ws \in DOMAIN sessions : \A k \in DOMAIN sessions[ws].out :
          Get(sessions[ws].out[k], "req_id") # R

\* C20: an authorized HTTP command whose host has a registry entry with a
\* socket on which the send fails is answered 502; the call writes its log
\* row, puts nothing on any socket and inserts no PendingCommand row, and
\* the command is never queued or sent afterwards, whatever binds later
C20_SendFailureIs502 ==
    [][/\ uuids' # uuids
          => \A q \in HttpRequests :
                (/\ ByUser(q)
                 /\ Authorized(q.token.user_id, q.to_device_id)
                 /\ q.to_device_id \in DOMAIN connections
                 /\ sessions[connections[q.to_device_id]].state # "open"
                 /\ Http(CallOf(q)))
                => /\ CallOf(q).returns.code = 502
                   /\ pending_commands' = pending_commands
                   /\ sessions' = sessions
                   /\ Len(message_logs') = Len(message_logs) + 1
                   /\ \E R \in 1..MaxRequests : R = uuids + 1 /\ Abandoned(R)'
       /\ \A R \in 1..uuids : Abandoned(R) => Abandoned(R)'
    ]_vars

\* a command was answered 502 on the closed socket of a host, and a later
\* session of that host, now the registered one and open, has bound and
\* reached its read loop without being sent it
C20_Witness ==
    \E R \in 1..uuids : \E old, new \in DOMAIN sessions :
        /\ Abandoned(R)
        /\ old < new
        /\ sessions[old].device_id = sessions[new].device_id
        /\ sessions[old].device_type = "host"
        /\ sessions[new].pc = "loop"
        /\ sessions[new].state = "open"
        /\ Get(connections, sessions[new].device_id) = new
        /\ \E r \in DOMAIN message_logs :
              /\ message_logs[r].to_device_id = sessions[new].device_id
              /\ Get(loads(message_logs[r].payload), "req_id") = R


-----------------------------------------------------------------------------
(* Claims about the rate limiter *)

\* the attempts recorded for a key
Attempts(key) == IF key \in DOMAIN _auth_attempts THEN _auth_attempts[key] ELSE <<>>

\* the recorded attempts of a key that are less than a window old
Young(key) == SelectSeq(Attempts(key), LAMBDA t : now - t < AUTH_RATE_WINDOW)

\* C21: for calls made one after the other on a key, a call is rejected
\* with 429 exactly when five recorded attempts are less than 60 s old, so
\* the sixth attempt within 60 s of the first is rejected and an attempt
\* made 60 s or more after the oldest recorded one is accepted; an accepted
\* attempt is recorded, a rejected one is not, and nothing younger than
\* 60 s is dropped, so the record never holds more than five attempts and
\* they all lie within one 60-second window
C21_FivePerWindow ==
    /\ [](\A key \in DOMAIN _auth_attempts :
            /\ Len(_auth_attempts[key]) <= AUTH_RATE_LIMIT
            /\ \A j, k \in DOMAIN _auth_attempts[key] :
                  j <= k => /\ _auth_attempts[key][j] <= _auth_attempts[key][k]
                            /\ _auth_attempts[key][k] - _auth_attempts[key][j] < AUTH_RATE_WINDOW)
    /\ [][auth_calls' # auth_calls
          => \A req \in LoginRequests :
                Login(req)
                => LET key == req.username
                   IN  /\ (login(req).code = 429) <=> (Len(Young(key)) >= AUTH_RATE_LIMIT)
                       /\ (Attempts(key) # <<>> /\ now - Attempts(key)[1] >= AUTH_RATE_WINDOW)
                          => login(req).code # 429
                       /\ _auth_attempts'[key] =
                             IF login(req).code = 429 THEN Young(key)
                             ELSE Append(Young(key), now)
                       /\ \A other \in DOMAIN _auth_attempts :
                             other # key => _auth_attempts'[other] = _auth_attempts[other]
       ]_vars

\* seven calls were made on one key: six at 0, of which the sixth was
\* rejected, and one exactly 60 s later, which was accepted after the five
\* recorded attempts had been pruned
C21_Witness ==
    /\ auth_calls = 7
    /\ now = 60
    /\ DOMAIN _auth_attempts = {"u1"}
    /\ _auth_attempts["u1"] = <<60>>


-----------------------------------------------------------------------------
(* Claims about the frames the read loop answers itself *)

\* the frame is a ping, is not JSON, or has a type that is not relayed
AnsweredLocally(raw) ==
    \/ ~IsJson(raw)
    \/ TypeOf(loads(raw)) \notin {"command", "event", "webrtc"}

\* what the sender of such a frame is told
LocalReply(raw) ==
    IF ~IsJson(raw) THEN [error |-> "invalid JSON"]
    ELSE IF TypeOf(loads(raw)) = "ping" THEN [type |-> "pong"]
    ELSE [error |-> "invalid message type: " \o TypeOf(loads(raw))]

C23_PongAccepted ==
    [][ws_received' # ws_received
       => \A ws \in DOMAIN sessions :
             _ws_loop(ws, dumps([type |-> "pong"]))
             => /\ \A t \in DOMAIN sessions : sessions'[t].out = sessions[t].out
                /\ message_logs' = message_logs
                /\ pending_commands' = pending_commands
                /\ connections' = connections
                /\ sessions'[ws].state = "open"
                /\ sessions'[ws].pc = "loop"
    ]_vars


-----------------------------------------------------------------------------
(* Claims about the request identifier *)

\* C24: every frame the relay has forwarded to a socket (a command, event or
\* webrtc frame in a socket's output) and every frame it has queued (the
\* payload of a PendingCommand row) carries a req_id, whether it came in
\* through an HTTP endpoint or through a session
C24_EveryRelayedFrameHasReqId ==
    /\ \A ws \in DOMAIN sessions :
          \A k \in DOMAIN sessions[ws].out :
              TypeOf(sessions[ws].out[k]) \in {"command", "event", "webrtc"}
              => Get(sessions[ws].out[k], "req_id") # None
    /\ \A i \in DOMAIN pending_commands :
          Get(loads(pending_commands[i].payload), "req_id") # None


-----------------------------------------------------------------------------
(* Claims about usernames *)

\* the k-th username google_login tries: base, base1, base2, ...
Candidate(base, k) == IF k = 0 THEN base ELSE base \o ToString(k)

\* C25: after any sequence of register and google_login calls no two User
\* rows have the same username; a register call whose username is taken
\* answers 400 and leaves the table as it was; a google_login call that
\* creates a user names it base, base1, base2, ...: the first of these that
\* no row has, where base is the local part of the email or, without an
\* email, "google_" and the first eight characters of the subject id
C25_UsernamesUnique ==
    /\ [](\A i, j \in DOMAIN users : users[i].username = users[j].username => i = j)
    /\ [][auth_calls' # auth_calls
          => /\ \A req \in RegisterRequests :
                   (AuthRegister(req) /\ \E u \in DOMAIN users : users[u].username = req.username)
                   => /\ register(req).code = 400
                      /\ users' = users
             /\ \A id_token \in IdTokens :
                   (AuthGoogle(id_token) /\ Len(users') > Len(users))
                   => LET base == IF id_token.email # Null THEN id_token.email.local
                                  ELSE "google_" \o id_token.sub.head
                          taken == {users[u].username : u \in DOMAIN users}
                          created == users'[Len(users')]
                      IN  /\ Len(users') = Len(users) + 1
                          /\ \A u \in DOMAIN users : users'[u] = users[u]
                          /\ created.google_id = id_token.sub
                          /\ \E k \in 0..Len(users) :
                                /\ created.username = Candidate(base, k)
                                /\ Candidate(base, k) \notin taken
                                /\ \A j \in 0..(k - 1) : Candidate(base, j) \in taken
       ]_vars

\* "ann" and "ann1" were registered, a Google user with the email
\* ann@x.org was created as "ann2", and a fourth call changed nothing
C25_Witness ==
    /\ auth_calls = 4
    /\ Len(users) = 6
    /\ \E i, j, k \in DOMAIN users :
          /\ users[i].username = "ann" /\ users[i].google_id = Null
          /\ users[j].username = "ann1" /\ users[j].google_id = Null
          /\ users[k].username = "ann2" /\ users[k].email = Email("ann", "x.org")
          /\ users[k].google_id # Null


-----------------------------------------------------------------------------
(* Claims about the message history *)

\* the device_id values a caller puts in the query: none, and the NamedIds
HistoryDeviceIds == {None} \cup NamedIds

\* the rows that involve a device of this user
RowsOfUser(user_id) ==
    {i \in DOMAIN message_logs :
        \E d \in DOMAIN devices :
            /\ devices[d].user_id = user_id
            /\ message_logs[i].from_device_id = d \/ message_logs[i].to_device_id = d}

\* the rows that involve this device
RowsOfDevice(d) ==
    {i \in DOMAIN message_logs :
        message_logs[i].from_device_id = d \/ message_logs[i].to_device_id = d}

\* C26: every item GET /history returns to a user is a MessageLog row whose
\* from_device_id or to_device_id is a device of that user; when device_id
\* names a device of the user every item involves that device; total is the
\* number of rows of exactly that set, and a page that starts at 0 and is
\* long enough holds every row of the set
C26_HistoryOnlyOwnRows ==
    \A token \in Tokens, device_id \in HistoryDeviceIds, limit \in {1, 50}, offset \in {0, 1} :
        LET r == get_history(token, device_id, limit, offset)
            user_id == token.user_id
            own == device_id # None /\ device_id \in DOMAIN devices
                   /\ devices[device_id].user_id = user_id
            rows == IF own THEN RowsOfUser(user_id) \cap RowsOfDevice(device_id)
                    ELSE RowsOfUser(user_id)
        IN  r.code = 200
            => /\ \A k \in DOMAIN r.items :
                     /\ r.items[k].id \in rows
                     /\ r.items[k].from_device_id = message_logs[r.items[k].id].from_device_id
                     /\ r.items[k].to_device_id = message_logs[r.items[k].id].to_device_id
               /\ r.total = Cardinality(rows)
               /\ (offset = 0 /\ limit >= r.total)
                  => {r.items[k].id : k \in DOMAIN r.items} = rows

\* the table holds a row that is not user a's, which a's history leaves
\* out, and user b has two rows of which one involves b's device d, which
\* the history narrowed to d leaves out
C26_Witness ==
    \E a, b \in Users :
        /\ get_history(Token(a), None, 50, 0).code = 200
        /\ get_history(Token(a), None, 50, 0).total > 0
        /\ get_history(Token(a), None, 50, 0).total < Len(message_logs)
        /\ \E d \in DOMAIN devices :
              /\ devices[d].user_id = b
              /\ get_history(Token(b), d, 50, 0).total > 0
              /\ Len(get_history(Token(b), d, 50, 0).items)
                    < Len(get_history(Token(b), None, 50, 0).items)

\* the limit and offset values a caller puts in the query
HistoryLimits == {-1, 0, 1, 200, 201}
HistoryOffsets == {-1, 0, 1}

\* C27: whatever integers limit and offset a caller supplies, a successful
\* response of GET /history holds at most 200 items and reports an offset
\* of at least 0
C27_AtMost200Items ==
    \A token \in Tokens, limit \in HistoryLimits, offset \in HistoryOffsets :
        LET r == get_history(token, None, limit, offset)
        IN  r.code = 200 => Len(r.items) <= 200 /\ r.offset >= 0


-----------------------------------------------------------------------------
(* Claims about sessions that are replaced *)

\* C28: a DEVICE_OFFLINE event for device d is put on a peer's socket only
\* in a step after which d has no entry in connections; in particular the
\* handler of a socket that was evicted by a new socket of d tells nobody
\* that d is offline
C28_OfflineOnlyWhenUnregistered ==
    [][\A t \in DOMAIN sessions :
          Len(sessions'[t].out) > Len(sessions[t].out)
          => \A d \in DOMAIN devices :
                sessions'[t].out[Len(sessions'[t].out)] = DEVICE_OFFLINE(d)
                => Get(connections', d) = None
    ]_vars

\* C29: _conn_lock is held only while the entry of connections is read and
\* replaced: a handler that is closing the socket it evicts has released the
\* lock, so in every state in which a close is awaited the lookups and binds
\* of other devices can take the lock
C29_CloseOutsideLock ==
    \A ws \in DOMAIN sessions : sessions[ws].pc = "evict" => _conn_lock = 0


-----------------------------------------------------------------------------
(* Claims about the rate limiter under concurrent calls *)

\* how often the time t is in the list
Count(list, t) == Cardinality({k \in DOMAIN list : list[k] = t})

\* C30: when several handlers call _check_rate_limit on the same key at the
\* same time the outcome is that of some serial order: no key ever holds
\* more than AUTH_RATE_LIMIT accepted attempts that lie within one window
\* of AUTH_RATE_WINDOW seconds, and no step removes a recorded attempt that
\* is younger than the window
C30_LimiterSerialized ==
    /\ [](\A key \in DOMAIN _auth_attempts :
            \A j \in DOMAIN _auth_attempts[key] :
                Cardinality({k \in DOMAIN _auth_attempts[key] :
                                /\ _auth_attempts[key][k] >= _auth_attempts[key][j]
                                /\ _auth_attempts[key][k] - _auth_attempts[key][j]
                                      < AUTH_RATE_WINDOW})
                   <= AUTH_RATE_LIMIT)
    /\ [][\A key \in DOMAIN _auth_attempts :
             \A j \in DOMAIN _auth_attempts[key] :
                 now - _auth_attempts[key][j] < AUTH_RATE_WINDOW
                 => Count(_auth_attempts'[key], _auth_attempts[key][j])
                       >= Count(_auth_attempts[key], _auth_attempts[key][j])
       ]_vars


-----------------------------------------------------------------------------
(* Claims about /pair/confirm calls that overlap *)

\* C31: whatever the interleaving of /pair/confirm calls, no two Pairing
\* rows have the same (host_device_id, client_device_id), and no two calls
\* that found the same PairingCode row both go on to answer paired
C31_ConfirmsSerialized ==
    /\ \A i, j \in DOMAIN pairings :
          (/\ pairings[i].host_device_id = pairings[j].host_device_id
           /\ pairings[i].client_device_id = pairings[j].client_device_id)
          => i = j
    /\ \A a, b \in confirms :
          (a # b /\ a.pc = b.pc) => (a.existing \/ b.existing)


-----------------------------------------------------------------------------
(* Claims about a replay that is cut short *)

\* the replay of the host session ws ends in this step because a send
\* failed: the handler leaves for its finally block with commands unsent
DrainAborts(ws) ==
    /\ sessions[ws].device_type = "host"
    /\ Unbound(sessions, ws) \/ Draining(sessions, ws)
    /\ sessions'[ws].pc = "cleanup"
    /\ sessions'[ws].sent < Len(sessions'[ws].todo)

-----------------------------------------------------------------------------
(* Claims about the delivery of queued commands *)

\* the frame of row i has been sent on a socket of the host of the row
SentToHost(i) ==
    \E ws \in DOMAIN sessions :
        /\ i \in DOMAIN pending_commands
        /\ sessions[ws].device_type = "host"
        /\ sessions[ws].device_id = pending_commands[i].host_device_id
        /\ \E k \in DOMAIN sessions[ws].out :
              sessions[ws].out[k] = loads(pending_commands[i].payload)

\* the socket ws is no longer open: a send on it fails
Closed(ws) == ws \in DOMAIN sessions /\ sessions[ws].state = "closed"

\* the socket ws of the host of row i has been accepted and is about to bind
BindsFor(ws, i) ==
    /\ i \in DOMAIN pending_commands
    /\ ws \in DOMAIN sessions
    /\ sessions[ws].device_type = "host"
    /\ sessions[ws].device_id = pending_commands[i].host_device_id
    /\ sessions[ws].pc = "bind"

\* C33: a command for which the relay answered {status: queued, req_id} is
\* in the queue of its host afterwards, also when a write to the store
\* failed during the call, and every queued command is eventually sent on a
\* socket of its host once a socket of the host binds on which sends do not
\* fail
C33_QueuedEventuallySent ==
    /\ [][uuids' # uuids
          => \A token \in Tokens, host_device_id \in NamedIds, log_ok, queue_ok \in BOOLEAN :
                LET call == get_sims(token, host_device_id)
                IN  (HttpStore(call, log_ok, queue_ok) /\ call.returns.status = "queued")
                    => \E i \in DOMAIN pending_commands' :
                          /\ pending_commands'[i].host_device_id = host_device_id
                          /\ loads(pending_commands'[i].payload).req_id = call.returns.req_id
                          /\ ~pending_commands'[i].delivered
       ]_vars
    /\ \A i \in 1..MaxQueued, ws \in 1..MaxHostSockets :
          BindsFor(ws, i) ~> (SentToHost(i) \/ Closed(ws))


-----------------------------------------------------------------------------
(* Claims about the delivered flag *)

\* C34: a row of pending_commands is marked delivered only when its frame
\* has been sent on a socket of the host of the row, so never for a command
\* whose send failed or was not attempted, and a row that is marked
\* delivered stays so
C34_DeliveredOnlyAfterSend ==
    /\ [](\A i \in DOMAIN pending_commands :
             pending_commands[i].delivered => SentToHost(i))
    /\ [][\A i \in DOMAIN pending_commands :
             pending_commands[i].delivered
                => (i \in DOMAIN pending_commands' /\ pending_commands'[i].delivered)
         ]_vars

\* a replay sent the first queued command of a host and failed at the
\* second: the first row is marked delivered, the second is not
C34_Witness ==
    \E ws \in DOMAIN sessions, i, j \in DOMAIN pending_commands :
        /\ sessions[ws].pc \in {"cleanup", "done"}
        /\ sessions[ws].sent = 1
        /\ Len(sessions[ws].todo) >= 2
        /\ sessions[ws].todo[1] = i
        /\ sessions[ws].todo[2] = j
        /\ pending_commands[i].delivered
        /\ SentToHost(i)
        /\ ~pending_commands[j].delivered
        /\ ~SentToHost(j)


-----------------------------------------------------------------------------
(* Claims about the order of the checks of /pair/confirm *)

\* C35: /pair/confirm applies the rate limit on the key of the client device
\* before it looks the device up: a call for a client device whose attempts
\* of the window are used up is answered 429 whoever owns the device, and
\* every other call is recorded among the attempts of the device
C35_LimiterBeforeOwnership ==
    \A token \in Tokens, req \in ConfirmRequests :
        decode_token(token) # None
        => LET call == confirm_pairing(token, req)
               key == PairKey(req.client_device_id)
           IN  IF Len(Recent(key)) >= AUTH_RATE_LIMIT
               THEN call.code = 429
               ELSE /\ key \in DOMAIN call._auth_attempts
                    /\ call._auth_attempts[key] = Append(Recent(key), now)


-----------------------------------------------------------------------------
(* Claims about calls of the pairing endpoints that fail *)

\* the store as the pairing endpoints see it
PairStore == <<devices, pairings, pairing_codes>>

\* POST /pair is answered 404: the caller does not own a host with this id
IssueFails(token, host_device_id) ==
    /\ decode_token(token) # None
    /\ ~_verify_device_ownership(host_device_id, decode_token(token), "host")

\* C36: a call of POST /pair that is answered 404 changes nothing, and a call
\* of /pair/confirm that is answered 404, 400, 403 or 429 leaves the store as
\* it was and has no write to commit: no PairingCode row is inserted or
\* marked used and no Pairing row is created, also when the code of the call
\* was issued to another user
C36_FailingCallsWriteNothing ==
    [][/\ \A token \in Tokens, host_device_id \in 1..MaxDevices, code \in Codes :
             IssueFails(token, host_device_id)
             => ~create_pairing_code(token, host_device_id, code)
       /\ \A token \in Tokens, req \in ConfirmRequests :
             (ConfirmRead(token, req) /\ confirm_pairing(token, req).code # 200)
             => /\ PairStore' = PairStore
                /\ confirms' = confirms
                /\ confirm_pairing(token, req).code \in {401, 404, 400, 403, 429}
                /\ confirm_pairing(token, req).threads = {}
       /\ PairStore' # PairStore
          => \/ \E token \in Tokens, device_type \in DeviceTypes :
                   create_device(token, device_type)
             \/ \E token \in Tokens, host_device_id \in 1..MaxDevices, code \in Codes :
                   /\ ~IssueFails(token, host_device_id)
                   /\ create_pairing_code(token, host_device_id, code)
             \/ \E thread \in confirms :
                   /\ ConfirmWrite(thread)
                   /\ pairing_codes[thread.pc].user_id
                         = devices[thread.client_device_id].user_id
    ]_vars

\* a confirm with the live code of another user has been answered 403 and
\* recorded among the attempts of the client: the code is still unused
C36_Witness ==
    \E q \in OwnConfirms :
        /\ FirstCodeOfAnother(q)
        /\ ~RateLimited(q)
        /\ confirm_pairing(q.token, q.req).code = 403
        /\ PairKey(q.req.client_device_id) \in DOMAIN _auth_attempts
        /\ \E k \in DOMAIN _auth_attempts[PairKey(q.req.client_device_id)] :
              _auth_attempts[PairKey(q.req.client_device_id)][k] = now
        /\ pairings = <<>>
        /\ pair_calls >= 2


-----------------------------------------------------------------------------
(* Claims about codes with the same digits *)

\* the caller holds a live code with the digits of the request for a host
\* of their own
HoldsCode(q) ==
    \E i \in DOMAIN pairing_codes :
        /\ Live(i)
        /\ pairing_codes[i].code = q.req.code
        /\ pairing_codes[i].user_id = q.token.user_id
        /\ devices[pairing_codes[i].host_device_id].user_id = q.token.user_id

\* C37: a user who holds a live code for a host of their own and confirms it
\* with a client of their own while not rate limited is answered paired or
\* already_paired, also when a host of another user has a live code with the
\* same digits
C37_OwnCodeConfirms ==
    \A q \in OwnConfirms :
        (HoldsCode(q) /\ ~RateLimited(q))
        => /\ confirm_pairing(q.token, q.req).code = 200
           /\ confirm_pairing(q.token, q.req).status \in {"paired", "already_paired"}


-----------------------------------------------------------------------------
(* Claims about the heartbeat *)

\* the handler of ws has left the read loop for its finally block
Ending(ws) == sessions[ws].pc \in {"cleanup", "notify", "done"}

\* a ping is sent on ws in this step
Pinged(ws) == Pings(sessions', ws) > Pings(sessions, ws)

\* the handler of ws is in its finally block with its heartbeat task
\* cancelled or returned, and no ping is sent on ws in this step
Unwinds(ws) ==
    /\ sessions[ws].pc \in {"cleanup", "notify"}
    /\ sessions[ws].heartbeat \in {"cancelled", "returned"}
    /\ ~Pinged(ws)

\* C38: the heartbeat task of a handler is cancelled, or has returned,
\* before the handler pops its socket from connections and before it sends
\* any DEVICE_OFFLINE: no handler in its finally block has a running
\* heartbeat, a ping is sent only on the socket of a handler in its read
\* loop, and every step that pops a socket from connections or sends a
\* DEVICE_OFFLINE is a step of a handler whose task no longer runs
C38_HeartbeatCancelledFirst ==
    /\ [](\A ws \in DOMAIN sessions :
             Ending(ws) => sessions[ws].heartbeat \in {"cancelled", "returned"})
    /\ [][/\ \A ws \in DOMAIN sessions :
                /\ Pinged(ws)
                   => /\ sessions[ws].pc = "loop"
                      /\ sessions'[ws].pc = "loop"
                      /\ sessions[ws].heartbeat = "running"
                /\ (/\ Get(connections, sessions[ws].device_id) = ws
                    /\ Get(connections', sessions[ws].device_id) = None)
                   => Unwinds(ws)
          /\ \A t \in DOMAIN sessions, d \in DOMAIN devices :
                (/\ Len(sessions'[t].out) > Len(sessions[t].out)
                 /\ sessions'[t].out[Len(sessions'[t].out)] = DEVICE_OFFLINE(d))
                => \E ws \in DOMAIN sessions :
                      sessions[ws].device_id = d /\ Unwinds(ws)
         ]_vars

\* a host was pinged in its read loop; its socket was closed, the handler
\* cancelled the heartbeat, left connections and told the client of the
\* host, which is still being pinged
C38_Witness ==
    \E ws, t \in DOMAIN sessions :
        /\ sessions[ws].pc = "done"
        /\ sessions[ws].heartbeat = "cancelled"
        /\ Pings(sessions, ws) >= 1
        /\ Get(connections, sessions[ws].device_id) = None
        /\ Told(ws, t)
        /\ sessions[t].pc = "loop"
        /\ sessions[t].heartbeat = "running"
        /\ sessions[t].out[Len(sessions[t].out)] = Ping


\* the socket ws is registered and open, its handler is in the read loop,
\* and n pings have been sent on it; its peer has sent nothing since the
\* greeting, so the first of the pings has been unanswered for n - 1
\* intervals
Unanswered(ws, n) ==
    /\ Get(connections, sessions[ws].device_id) = ws
    /\ sessions[ws].pc = "loop"
    /\ IsOpen(sessions, ws)
    /\ ws_received = 0
    /\ Pings(sessions, ws) >= n

\* C39: the server closes a socket whose peer has answered no ping for
\* HEARTBEAT_TIMEOUT: no socket is still open and registered when the first
\* ping on it has been unanswered for more than HEARTBEAT_TIMEOUT
C39_DeadPeerClosed ==
    \A ws \in DOMAIN sessions, n \in 1..MaxPings :
        (n - 1) * HEARTBEAT_INTERVAL > HEARTBEAT_TIMEOUT => ~Unanswered(ws, n)


-----------------------------------------------------------------------------
(* Claims about sessions whose channel is dead *)

Registered(ws) ==
    ws \in DOMAIN sessions /\ Get(connections, sessions[ws].device_id) = ws

\* ws is registered and its channel is dead: the peer has closed it, a send
\* of its heartbeat has failed, or a pass of its read loop has raised
ChannelDead(ws) ==
    /\ Registered(ws)
    /\ \/ ~IsOpen(sessions, ws)
       \/ sessions[ws].heartbeat = "returned"
       \/ sessions[ws].pc = "cleanup"

\* the finally block of the handler of ws has run
CleanedUp(ws) == ws \in DOMAIN sessions /\ sessions[ws].pc \in {"notify", "done"}

\* C40: once the channel of a registered socket is closed by the peer, a
\* heartbeat send on it has failed, or a pass of its read loop has raised,
\* the finally block of its handler eventually runs and the socket is no
\* longer the entry of its device in connections; a handler that is done
\* has no entry left
C40_DeadChannelCleanedUp ==
    /\ [](\A ws \in DOMAIN sessions : CleanedUp(ws) => ~Registered(ws))
    /\ \A ws \in 1..MaxBeatSockets :
          ChannelDead(ws) ~> (CleanedUp(ws) /\ ~Registered(ws))

\* the peer of a socket closed it, the next ping failed and the heartbeat
\* task returned; the handler saw the close, ran its finally block and left
\* no entry of the device, while a handler whose read loop raised has done
\* the same on a socket that is still open
C40_Witness ==
    \E ws, t \in DOMAIN sessions :
        /\ sessions[ws].pc = "done"
        /\ sessions[ws].heartbeat = "returned"
        /\ ~IsOpen(sessions, ws)
        /\ Get(connections, sessions[ws].device_id) = None
        /\ sessions[t].pc = "done"
        /\ sessions[t].heartbeat = "cancelled"
        /\ IsOpen(sessions, t)
        /\ Get(connections, sessions[t].device_id) = None

====
